---- MODULE Spec2Model ----
(***************************************************************************)
(* Polaris agent system: the router's ReAct turn (polaris/router.py,       *)
(* polaris/bot_v2.py handle_message) and the approval gate                 *)
(* (polaris/approval_gate.py), each as a state machine.                    *)
(*                                                                         *)
(*   Spec      one chat message handled by handle_message: route(), the    *)
(*             ReAct loop, the post-turn persistence and the trace log.    *)
(*   GateSpec  execute_with_approval requests racing with approve/deny     *)
(*             callbacks and with the wait_for timers.                     *)
(*   GateFair  GateSpec with the fairness the asyncio event loop gives.    *)
(*   ReloadSpec  the hot-reload watcher, the rebuilding of the skill table  *)
(*             and a thread matching skills against the table.             *)
(***************************************************************************)
EXTENDS Naturals, Sequences, FiniteSets, TLC

VARIABLES
    \* ---- router turn (handle_message / route / _route_ollama) ----
    pc,                 \* position of handle_message
    message,            \* the user message, as the set of vocabulary words it contains
    enforcement,        \* result of _resolve_skill_enforcement
    relevant_tools,     \* the per-turn toolset offered to the LLM (names, registry order)
    preflight_results,  \* results of _execute_preflight_tools
    tools_used,         \* _route_ollama local tools_used
    successful_tools,   \* _route_ollama local successful_tools
    iteration,          \* number of completed loop iterations (LLM requests answered)
    llm_requests,       \* number of chat.completions.create calls made
    choice_content,     \* choice.message.content of the last LLM response
    messages,           \* the tool-result messages appended to the transcript
    ending,             \* how _route_ollama ended
    response,           \* result["response"]
    approval_decisions, \* decisions returned by ApprovalGate.execute_with_approval in this turn
    conversations,      \* rows of the memory store's conversations table
    traces,             \* rows of the trace logger's traces table
    \* ---- approval gate ----
    reqs,               \* per execute_with_approval call: its locals and position
    pending,            \* ApprovalGate._pending: callback ids with a parked future
    answers,            \* the callback_query.answer texts given, per callback id
    \* ---- hot reload and the skill registry ----
    now,                \* time.time(), in seconds
    mtime,              \* st_mtime of each watched file
    _watch_mtimes,      \* HotReloader._watch_mtimes: the mtime snapshot
    _last_check,        \* HotReloader._last_check
    modified,           \* runtime files modified since the last check that was not throttled
    last_check,         \* what the last check_and_apply call did: whether it was throttled,
                        \* the modified runtime files whose mtime differed from the
                        \* snapshot's, and its number of reload callback calls
    _index,             \* the skill table router.skill_registry._index refers to (skill names)
    reloader,           \* position of the thread that rebuilds the table
    matcher,            \* position of the thread inside SkillRegistry.match
    \* ---- vault indexer ----
    vault_now,          \* time.time(), which is also the clock the file system stamps with
    notes,              \* the vault's .md files: per path, whether scan_vault keeps it,
                        \* its st_mtime and the content parse_note gets from it
    vault_index,        \* contents of vault_index.json: path -> index entry
    knowledge,          \* rows of the memory store's knowledge table
    vault_changed,      \* whether a file changed since the last index_vault call
    index_runs,         \* the last two index_vault calls: force, the stats returned and
                        \* whether a file had changed since the call before
    \* ---- ensemble voter (rlm_wrapper.py) ----
    rlm_config,         \* RLMWrapper.config, once RLM_CONFIG.yaml is loaded
    corrections,        \* lines of data/feedback/corrections.jsonl
    classified,         \* the last classify_with_ensemble call: its mail subject, the
                        \* corrections log it met, what the inferences returned and
                        \* what it returned
    \* ---- trace logger (trace_logger.py) ----
    trace_table,        \* rows of trace.db's traces table, by id
    trace_result,       \* what the last query method returned
    \* ---- mail triage (mailops) ----
    mail_messages,      \* ext_id of the rows of mail_messages, in insertion order
    mail_classification,\* rows of mail_classification: ext_id -> category
    mail_alerts,        \* rows of mail_alerts: << ext_id, alert_type >>
    alerted,            \* the ext_ids mark_alerted was called for with alert type urgent
    resynced,           \* the ext_ids a sync fetched after they were marked
    unalerted,          \* the last list_unalerted_urgent call: the ext_ids it returned,
                        \* and the parity of the number of calls so far
    \* ---- urgent mail poller (mailops/poller.py) ----
    poll_log,           \* the last poll_and_alert call: the urgent mails it listed and
                        \* how its send_message calls ended
    delivered,          \* the ext_ids listed in an alert message that reached the chat
    \* ---- memory store and concurrent route calls (memory.py, router.py) ----
    mem_conversations,  \* rows of polaris_memory.db's conversations table, by id
    mem_knowledge,      \* rows of its knowledge table, by id
    search_hits,        \* what the last _semantic_search call returned
    _current_session_id,\* PolarisRouter._current_session_id
    route_calls         \* per session, the position of its route call on the worker
                        \* thread and the rows its system prompt quoted

routerVars == << pc, message, enforcement, relevant_tools, preflight_results, tools_used,
                 successful_tools, iteration, llm_requests, choice_content, messages,
                 ending, response, approval_decisions, conversations, traces >>
gateVars == << reqs, pending, answers >>
reloadVars == << now, mtime, _watch_mtimes, _last_check, modified, last_check, _index,
                 reloader, matcher >>
vaultVars == << vault_now, notes, vault_index, knowledge, vault_changed, index_runs >>
coreVars == << routerVars, gateVars, reloadVars >>
voteVars == << rlm_config, corrections, classified >>
traceVars == << trace_table, trace_result >>
mailVars == << mail_messages, mail_classification, mail_alerts, alerted, resynced,
              unalerted >>
pollVars == << poll_log, delivered >>
memVars == << mem_conversations, mem_knowledge, search_hits, _current_session_id,
             route_calls >>
extVars == << vaultVars, voteVars, traceVars, mailVars, pollVars, memVars >>
vars == << routerVars, gateVars, reloadVars, extVars >>

(***************************************************************************)
(* Bounds of the model.                                                    *)
(***************************************************************************)
\* PolarisRouter(max_iterations=...); the default is MAX_ITERATIONS = 10.
max_iterations == 2

(***************************************************************************)
(* Helpers on sequences.                                                   *)
(***************************************************************************)
Range(s) == { s[i] : i \in DOMAIN s }

RECURSIVE SelectInOrder(_, _)
\* [x for x in s if x in S]
SelectInOrder(s, S) ==
    IF s = << >> THEN << >>
    ELSE IF Head(s) \in S THEN << Head(s) >> \o SelectInOrder(Tail(s), S)
         ELSE SelectInOrder(Tail(s), S)

RECURSIVE AppendNew(_, _)
\* for name in names: if name not in acc: acc.append(name)
AppendNew(acc, names) ==
    IF names = << >> THEN acc
    ELSE AppendNew(IF Head(names) \in Range(acc) THEN acc ELSE Append(acc, Head(names)),
                   Tail(names))

(***************************************************************************)
(* The approval gate's static risk table.                                  *)
(***************************************************************************)
TOOL_RISK_MAP ==
    [ arxiv_search        |-> "AUTO",
      get_schedule        |-> "AUTO",
      list_physics_jobs   |-> "AUTO",
      phd_handle          |-> "AUTO",
      download_pdf        |-> "CONFIRM",
      analyze_paper       |-> "CONFIRM",
      check_physics_job   |-> "CONFIRM",
      analyze_emails      |-> "CONFIRM",
      submit_physics_job  |-> "CRITICAL",
      send_email_reply    |-> "CRITICAL" ]

\* The lookup with AUTO as the level of a name the table does not hold
RiskOf_DefaultAuto(tool_name) ==
    IF tool_name \in DOMAIN TOOL_RISK_MAP THEN TOOL_RISK_MAP[tool_name] ELSE "AUTO"

\* TOOL_RISK_MAP.get(tool_name, RiskLevel.CONFIRM)
RiskOf(tool_name) ==
    IF tool_name \in DOMAIN TOOL_RISK_MAP THEN TOOL_RISK_MAP[tool_name] ELSE "CONFIRM"

(***************************************************************************)
(* The tool registry: the tool definitions the router loads (self.tools,   *)
(* in discovery order) and the handler table. Two of the registered tools  *)
(* are modelled; get_schedule is a name the LLM may request that has no    *)
(* handler.                                                                *)
(***************************************************************************)
tools ==
    << [name |-> "download_paper_pdf",   required |-> {"pdf_url", "save_path"}],
       [name |-> "check_hpc_connection", required |-> {}] >>

ToolNames == { tools[i].name : i \in DOMAIN tools }
HANDLERS == ToolNames
UnregisteredNames == {"get_schedule"}

ToolDef(name) == CHOOSE t \in Range(tools) : t.name = name

\* The vocabulary of the modelled messages, and TOOL_KEYWORDS restricted to it.
TOOL_KEYWORDS ==
    [ download_paper_pdf   |-> {"pdf"},
      check_hpc_connection |-> {"hpc"} ]

(***************************************************************************)
(* The skill registry's index (insertion order), as the tests build it.    *)
(***************************************************************************)
SkillIndex ==
    << [name |-> "hpc_monitor", triggers |-> {"status"}, requires_tool |-> TRUE,
        tool_chain |-> << "check_hpc_connection" >>,
        tools_required |-> << "check_hpc_connection" >>],
       [name |-> "paper_fetch", triggers |-> {"fetch"}, requires_tool |-> TRUE,
        tool_chain |-> << >>,
        tools_required |-> << "download_paper_pdf", "check_hpc_connection" >>],
       [name |-> "calendar_plan", triggers |-> {"plan"}, requires_tool |-> TRUE,
        tool_chain |-> << "get_schedule" >>,
        tools_required |-> << >>],
       [name |-> "smalltalk", triggers |-> {"hello"}, requires_tool |-> FALSE,
        tool_chain |-> << >>,
        tools_required |-> << "get_schedule" >>] >>

\* The user messages of the model: the vocabulary words each contains.
Messages ==
    { {"hello"}, {"pdf"}, {"hpc", "pdf"}, {"status", "hello"}, {"fetch"}, {"plan"},
      {"status", "fetch"}, {"status", "plan"} }

RECURSIVE MatchFrom(_, _)
MatchFrom(index, msg) ==
    IF index = << >> THEN << >>
    ELSE IF Head(index).triggers \cap msg # {}
         THEN << Head(index) >> \o MatchFrom(Tail(index), msg)
         ELSE MatchFrom(Tail(index), msg)

\* SkillRegistry.match: every skill one of whose triggers occurs in the message
match(msg) == IF msg = {} THEN << >> ELSE MatchFrom(SkillIndex, msg)

\* PolarisRouter._select_relevant_tools
_select_relevant_tools(msg) ==
    SelectInOrder([i \in DOMAIN tools |-> tools[i].name],
                  { n \in ToolNames : TOOL_KEYWORDS[n] \cap msg # {} })

\* The lookup returning every registered tool, whatever names are wanted
_get_tools_by_name_AllTools(tool_names) == [i \in DOMAIN tools |-> tools[i].name]

\* PolarisRouter._get_tools_by_name
_get_tools_by_name(tool_names) ==
    SelectInOrder([i \in DOMAIN tools |-> tools[i].name], Range(tool_names))

\* the loop appending a name to allowed_tools also when it is already there
RECURSIVE ResolveFrom_KeepsDuplicates(_, _)
ResolveFrom_KeepsDuplicates(matched_skills, acc) ==
    IF matched_skills = << >> THEN acc
    ELSE LET skill == Head(matched_skills)
             ordered == IF skill.tool_chain # << >> THEN skill.tool_chain
                        ELSE skill.tools_required
             zeroarg == SelectInOrder(ordered,
                            { n \in ToolNames : ToolDef(n).required = {} })
         IN  IF ~skill.requires_tool THEN ResolveFrom_KeepsDuplicates(Tail(matched_skills), acc)
             ELSE ResolveFrom_KeepsDuplicates(Tail(matched_skills),
                    [ requires_tool   |-> TRUE,
                      allowed_tools   |-> acc.allowed_tools \o ordered,
                      chain_tools     |-> AppendNew(acc.chain_tools, ordered),
                      preflight_tools |-> AppendNew(acc.preflight_tools, zeroarg) ])

RECURSIVE ResolveFrom(_, _)
ResolveFrom(matched_skills, acc) ==
    IF matched_skills = << >> THEN acc
    ELSE LET skill == Head(matched_skills)
             ordered == IF skill.tool_chain # << >> THEN skill.tool_chain
                        ELSE skill.tools_required
             zeroarg == SelectInOrder(ordered,
                            { n \in ToolNames : ToolDef(n).required = {} })
         IN  IF ~skill.requires_tool THEN ResolveFrom(Tail(matched_skills), acc)
             ELSE ResolveFrom(Tail(matched_skills),
                    [ requires_tool   |-> TRUE,
                      allowed_tools   |-> AppendNew(acc.allowed_tools, ordered),
                      chain_tools     |-> AppendNew(acc.chain_tools, ordered),
                      preflight_tools |-> AppendNew(acc.preflight_tools, zeroarg) ])

_resolve_skill_enforcement_KeepsDuplicates(matched_skills) ==
    ResolveFrom_KeepsDuplicates(matched_skills,
                [ requires_tool |-> FALSE, allowed_tools |-> << >>,
                  chain_tools |-> << >>, preflight_tools |-> << >> ])

\* PolarisRouter._resolve_skill_enforcement
_resolve_skill_enforcement(matched_skills) ==
    ResolveFrom(matched_skills,
                [ requires_tool |-> FALSE, allowed_tools |-> << >>,
                  chain_tools |-> << >>, preflight_tools |-> << >> ])

NoEnforcement == _resolve_skill_enforcement(<< >>)

(***************************************************************************)
(* Tool execution. A result string is modelled by its kind:                *)
(*   payload            a handler's result without an error marker         *)
(*   error_payload      a handler's JSON result with an "error" key         *)
(*   handler_exception  "Tool '<name>' failed: <e>" (router.py:790)        *)
(*   unknown_tool       {"error": "Unknown tool: <name>"} (tools:81)       *)
(***************************************************************************)
HandlerOutcomes == {"payload", "error_payload", "handler_exception"}

\* The result kinds _execute_tool(name, args) can return
ExecuteToolResults(name) ==
    IF name \in HANDLERS THEN HandlerOutcomes ELSE {"unknown_tool"}

\* PolarisRouter._looks_like_tool_error
_looks_like_tool_error(result_text) ==
    \/ result_text = "handler_exception"               \* "tool '" and "failed" in lower
    \/ result_text \in {"error_payload", "unknown_tool"}   \* '"error"' in lower

\* Whether a handler was invoked to produce the result
HandlerRan(result_text) == result_text \in HandlerOutcomes

(***************************************************************************)
(* The LLM client. A response either requests tool calls or is final; the  *)
(* model may name any tool, offered or not. The responses' texts are       *)
(* modelled by whether choice.message.content is empty.                    *)
(***************************************************************************)
Contents == {"", "model_text"}

\* The tool_calls lists a response can carry (names in call order)
ToolCallBatches ==
    { << "download_paper_pdf" >>,
      << "check_hpc_connection" >>,
      << "get_schedule" >>,
      << "download_paper_pdf", "check_hpc_connection" >> }

\* The result kinds of a list of _execute_tool calls, one per name
BatchResults(names) ==
    { r \in [DOMAIN names -> HandlerOutcomes \cup {"unknown_tool"}] :
        \A i \in DOMAIN names : r[i] \in ExecuteToolResults(names[i]) }

\* The names of a batch whose result does not look like an error, in order
RECURSIVE Successes(_, _)
Successes(names, results) ==
    IF names = << >> THEN << >>
    ELSE (IF _looks_like_tool_error(Head(results)) THEN << >> ELSE << Head(names) >>)
         \o Successes(Tail(names), Tail(results))

\* The responses of the router that are not the model's text
NO_TOOLS_MATCHED == "tools_required_none_matched"      \* router.py:566
REFUSAL == "tool_result_required_none_succeeded"       \* router.py:666
AUTH_ERROR == "authentication_error"                   \* router.py:621
API_ERROR == "api_error"                               \* router.py:627
FALLBACK == "unable_to_complete_within_steps"          \* router.py:676

(***************************************************************************)
(* handle_message up to the first LLM request: route() enters              *)
(* _route_ollama, which matches the skills, resolves the enforcement       *)
(* policy, selects the toolset, returns early when tools are required and  *)
(* none is available, and runs the preflight tools.                        *)
(***************************************************************************)
\* _route_ollama without the early return of lines 563-570
HandleMessage_NoEarlyReturn ==
    /\ pc = "idle"
    /\ \E msg \in Messages :
         LET enf == _resolve_skill_enforcement(match(msg))
             rel == IF enf.requires_tool /\ enf.allowed_tools # << >>
                    THEN _get_tools_by_name(enf.allowed_tools)
                    ELSE _select_relevant_tools(msg)
         IN  /\ message' = msg
             /\ enforcement' = enf
             /\ relevant_tools' = rel
             /\ IF FALSE
                THEN /\ pc' = "returned"
                     /\ ending' = "no_tools"
                     /\ response' = NO_TOOLS_MATCHED
                     /\ UNCHANGED << preflight_results, tools_used, successful_tools >>
                ELSE /\ pc' = "loop"
                     /\ \E res \in BatchResults(enf.preflight_tools) :
                          /\ preflight_results' =
                               [i \in DOMAIN res |->
                                  [name |-> enf.preflight_tools[i], content |-> res[i],
                                   ok |-> ~_looks_like_tool_error(res[i])]]
                          /\ tools_used' = enf.preflight_tools
                          /\ successful_tools' = Successes(enf.preflight_tools, res)
                     /\ UNCHANGED << ending, response >>
    /\ UNCHANGED << iteration, llm_requests, choice_content, messages,
                    approval_decisions, conversations, traces, gateVars, reloadVars, extVars >>

\* _route_ollama not adding the preflight tools that were ok to successful_tools
HandleMessage_PreflightNotCounted ==
    /\ pc = "idle"
    /\ \E msg \in Messages :
         LET enf == _resolve_skill_enforcement(match(msg))
             rel == IF enf.requires_tool /\ enf.allowed_tools # << >>
                    THEN _get_tools_by_name(enf.allowed_tools)
                    ELSE _select_relevant_tools(msg)
         IN  /\ message' = msg
             /\ enforcement' = enf
             /\ relevant_tools' = rel
             /\ IF enf.requires_tool /\ rel = << >>
                THEN /\ pc' = "returned"
                     /\ ending' = "no_tools"
                     /\ response' = NO_TOOLS_MATCHED
                     /\ UNCHANGED << preflight_results, tools_used, successful_tools >>
                ELSE /\ pc' = "loop"
                     /\ \E res \in BatchResults(enf.preflight_tools) :
                          /\ preflight_results' =
                               [i \in DOMAIN res |->
                                  [name |-> enf.preflight_tools[i], content |-> res[i],
                                   ok |-> ~_looks_like_tool_error(res[i])]]
                          /\ tools_used' = enf.preflight_tools
                          /\ successful_tools' = << >>
                     /\ UNCHANGED << ending, response >>
    /\ UNCHANGED << iteration, llm_requests, choice_content, messages,
                    approval_decisions, conversations, traces, gateVars, reloadVars, extVars >>

HandleMessage ==
    /\ pc = "idle"
    /\ \E msg \in Messages :
         LET enf == _resolve_skill_enforcement(match(msg))
             rel == IF enf.requires_tool /\ enf.allowed_tools # << >>
                    THEN _get_tools_by_name(enf.allowed_tools)
                    ELSE _select_relevant_tools(msg)
         IN  /\ message' = msg
             /\ enforcement' = enf
             /\ relevant_tools' = rel
             /\ IF enf.requires_tool /\ rel = << >>
                THEN /\ pc' = "returned"
                     /\ ending' = "no_tools"
                     /\ response' = NO_TOOLS_MATCHED
                     /\ UNCHANGED << preflight_results, tools_used, successful_tools >>
                ELSE /\ pc' = "loop"
                     /\ \E res \in BatchResults(enf.preflight_tools) :
                          /\ preflight_results' =
                               [i \in DOMAIN res |->
                                  [name |-> enf.preflight_tools[i], content |-> res[i],
                                   ok |-> ~_looks_like_tool_error(res[i])]]
                          /\ tools_used' = enf.preflight_tools
                          /\ successful_tools' = Successes(enf.preflight_tools, res)
                     /\ UNCHANGED << ending, response >>
    /\ UNCHANGED << iteration, llm_requests, choice_content, messages,
                    approval_decisions, conversations, traces, gateVars, reloadVars, extVars >>

\* skill_registry.match raises at router.py:555, outside every try block
MatchRaises ==
    /\ pc = "idle"
    /\ \E msg \in Messages : message' = msg
    /\ pc' = "raised"
    /\ ending' = "exception"
    /\ UNCHANGED << enforcement, relevant_tools, preflight_results, tools_used,
                    successful_tools, iteration, llm_requests, choice_content, messages,
                    response, approval_decisions, conversations, traces, gateVars, reloadVars,
                    extVars >>

\* for iteration in range(self.max_iterations + 1)
InLoop_OneMore == pc = "loop" /\ iteration <= max_iterations

\* for iteration in range(self.max_iterations): the loop body is entered
InLoop == pc = "loop" /\ iteration < max_iterations

\* client.chat.completions.create raises AuthenticationError (router.py:618)
LLMAuthError ==
    /\ InLoop
    /\ llm_requests' = llm_requests + 1
    /\ pc' = "returned"
    /\ ending' = "llm_error"
    /\ response' = AUTH_ERROR
    /\ UNCHANGED << message, enforcement, relevant_tools, preflight_results, tools_used,
                    successful_tools, iteration, choice_content, messages,
                    approval_decisions, conversations, traces, gateVars, reloadVars, extVars >>

\* client.chat.completions.create raises APIError (router.py:624)
LLMApiError ==
    /\ InLoop
    /\ llm_requests' = llm_requests + 1
    /\ pc' = "returned"
    /\ ending' = "llm_error"
    /\ response' = API_ERROR
    /\ UNCHANGED << message, enforcement, relevant_tools, preflight_results, tools_used,
                    successful_tools, iteration, choice_content, messages,
                    approval_decisions, conversations, traces, gateVars, reloadVars, extVars >>

\* The client raises an exception that is no APIError, or returns a response the
\* loop cannot read (no choices: router.py:631); nothing in route catches it.
LLMRaises ==
    /\ InLoop
    /\ llm_requests' = llm_requests + 1
    /\ pc' = "raised"
    /\ ending' = "exception"
    /\ UNCHANGED << message, enforcement, relevant_tools, preflight_results, tools_used,
                    successful_tools, iteration, choice_content, messages, response,
                    approval_decisions, conversations, traces, gateVars, reloadVars, extVars >>

\* _execute_tool letting a handler's exception end the turn
ToolCalls_FailureAborts ==
    /\ InLoop
    /\ \E content \in Contents, names \in ToolCallBatches :
         \E res \in BatchResults(names) :
            /\ choice_content' = content
            /\ tools_used' = tools_used \o names
            /\ successful_tools' = successful_tools \o Successes(names, res)
            /\ messages' = messages \o
                 [i \in DOMAIN names |-> [role |-> "tool", tool |-> names[i],
                                          content |-> res[i]]]
            /\ pc' = IF \E k \in DOMAIN res : res[k] = "handler_exception"
                     THEN "raised" ELSE pc
            /\ ending' = IF \E k \in DOMAIN res : res[k] = "handler_exception"
                         THEN "exception" ELSE ending
    /\ llm_requests' = llm_requests + 1
    /\ iteration' = iteration + 1
    /\ UNCHANGED << message, enforcement, relevant_tools, preflight_results,
                    response, approval_decisions, conversations, traces, gateVars, reloadVars,
                    extVars >>

\* The response requests tool calls (router.py:634-659): each call is recorded in
\* tools_used and executed by _execute_tool, its result appended as a tool message.
ToolCalls ==
    /\ InLoop
    /\ \E content \in Contents, names \in ToolCallBatches :
         \E res \in BatchResults(names) :
            /\ choice_content' = content
            /\ tools_used' = tools_used \o names
            /\ successful_tools' = successful_tools \o Successes(names, res)
            /\ messages' = messages \o
                 [i \in DOMAIN names |-> [role |-> "tool", tool |-> names[i],
                                          content |-> res[i]]]
    /\ llm_requests' = llm_requests + 1
    /\ iteration' = iteration + 1
    /\ UNCHANGED << pc, message, enforcement, relevant_tools, preflight_results, ending,
                    response, approval_decisions, conversations, traces, gateVars, reloadVars,
                    extVars >>

\* The response carries no tool calls: the final answer (router.py:661-671)
FinalAnswer ==
    /\ InLoop
    /\ \E content \in Contents :
         /\ choice_content' = content
         /\ response' = IF enforcement.requires_tool /\ successful_tools = << >>
                        THEN REFUSAL ELSE content
    /\ llm_requests' = llm_requests + 1
    /\ pc' = "returned"
    /\ ending' = "final"
    /\ UNCHANGED << message, enforcement, relevant_tools, preflight_results, tools_used,
                    successful_tools, iteration, messages, approval_decisions,
                    conversations, traces, gateVars, reloadVars, extVars >>

\* The exhausted loop returning the generic fallback whatever the model last said
Exhausted_FallbackOnly ==
    /\ pc = "loop"
    /\ iteration >= max_iterations
    /\ pc' = "returned"
    /\ ending' = "exhausted"
    /\ response' = FALLBACK
    /\ UNCHANGED << message, enforcement, relevant_tools, preflight_results, tools_used,
                    successful_tools, iteration, llm_requests, choice_content, messages,
                    approval_decisions, conversations, traces, gateVars, reloadVars, extVars >>

\* The for loop ran max_iterations times (router.py:673-678)
Exhausted ==
    /\ pc = "loop"
    /\ iteration >= max_iterations
    /\ pc' = "returned"
    /\ ending' = "exhausted"
    /\ response' = IF choice_content # "" THEN choice_content ELSE FALLBACK
    /\ UNCHANGED << message, enforcement, relevant_tools, preflight_results, tools_used,
                    successful_tools, iteration, llm_requests, choice_content, messages,
                    approval_decisions, conversations, traces, gateVars, reloadVars, extVars >>

\* route() saving the assistant turn before the user turn
Persist_AssistantFirst ==
    /\ pc = "returned"
    /\ \E user_saved \in BOOLEAN, assistant_saved \in BOOLEAN :
         conversations' = conversations
            \o (IF assistant_saved /\ response # ""
                THEN << [role |-> "assistant", content |-> response] >> ELSE << >>)
            \o (IF user_saved THEN << [role |-> "user", content |-> "message"] >>
                ELSE << >>)
    /\ pc' = "routed"
    /\ UNCHANGED << message, enforcement, relevant_tools, preflight_results, tools_used,
                    successful_tools, iteration, llm_requests, choice_content, messages,
                    ending, response, approval_decisions, traces, gateVars, reloadVars, extVars >>

\* route() after the backend returned (router.py:420-431): the user turn, then the
\* assistant turn when the response is not empty; a failing save is logged and skipped.
Persist ==
    /\ pc = "returned"
    /\ \E user_saved \in BOOLEAN, assistant_saved \in BOOLEAN :
         conversations' = conversations
            \o (IF user_saved THEN << [role |-> "user", content |-> "message"] >>
                ELSE << >>)
            \o (IF assistant_saved /\ response # ""
                THEN << [role |-> "assistant", content |-> response] >> ELSE << >>)
    /\ pc' = "routed"
    /\ UNCHANGED << message, enforcement, relevant_tools, preflight_results, tools_used,
                    successful_tools, iteration, llm_requests, choice_content, messages,
                    ending, response, approval_decisions, traces, gateVars, reloadVars, extVars >>

\* handle_message logging tools_used from its last entry to its first
LogTraces_Reversed ==
    /\ pc = "routed"
    /\ traces' = traces \o
         [i \in DOMAIN tools_used |->
            [tool |-> tools_used[Len(tools_used) + 1 - i], result |-> response,
             approval_level |-> "AUTO", approved_by |-> ""]]
    /\ pc' = "replied"
    /\ UNCHANGED << message, enforcement, relevant_tools, preflight_results, tools_used,
                    successful_tools, iteration, llm_requests, choice_content, messages,
                    ending, response, approval_decisions, conversations, gateVars, reloadVars,
                    extVars >>

\* handle_message after route returned (bot_v2.py:626-653): one trace row per entry
\* of tools_used, then the reply.
LogTraces ==
    /\ pc = "routed"
    /\ traces' = traces \o
         [i \in DOMAIN tools_used |->
            [tool |-> tools_used[i], result |-> response, approval_level |-> "AUTO",
             approved_by |-> ""]]
    /\ pc' = "replied"
    /\ UNCHANGED << message, enforcement, relevant_tools, preflight_results, tools_used,
                    successful_tools, iteration, llm_requests, choice_content, messages,
                    ending, response, approval_decisions, conversations, gateVars, reloadVars,
                    extVars >>

\* The exception leaves route and handle_message; the application's error_handler
\* (bot_v2.py:666-669) answers "An error occurred".
ErrorHandler ==
    /\ pc = "raised"
    /\ pc' = "aborted"
    /\ UNCHANGED << message, enforcement, relevant_tools, preflight_results, tools_used,
                    successful_tools, iteration, llm_requests, choice_content, messages,
                    ending, response, approval_decisions, conversations, traces, gateVars, reloadVars,
                    extVars >>

(***************************************************************************)
(* The approval gate. Each execute_with_approval call is a request; its    *)
(* callback id (uuid4) is modelled by its index in reqs. Between two       *)
(* awaits a coroutine runs without interleaving, so one action is the code *)
(* from one suspension point to the next. wait_for's timer is a countdown  *)
(* in seconds; Tick lets time pass until the next timer is due.            *)
(***************************************************************************)
\* Number of execute_with_approval calls in a behaviour
MaxRequests == 1

\* _TIMEOUTS, in seconds
CONFIRM_TIMEOUT == 300
CRITICAL_TIMEOUT == 1800
\* The table with the CONFIRM timeout for both levels
_TIMEOUTS_BothConfirm == [CONFIRM |-> CONFIRM_TIMEOUT, CRITICAL |-> CONFIRM_TIMEOUT]

_TIMEOUTS == [CONFIRM |-> CONFIRM_TIMEOUT, CRITICAL |-> CRITICAL_TIMEOUT]

\* The tool names execute_with_approval is called with
GateTools == {"get_schedule", "download_pdf", "send_email_reply", "totally_unknown_tool"}

\* A callback id that no request of this process carries
StaleId == 0

NotReturned == [approved |-> FALSE, result |-> "None", approval_level |-> "none"]

NewRequest(tool_name, has_transport) ==
    [ tool |-> tool_name, risk |-> RiskOf(tool_name), transport |-> has_transport,
      pc |-> "start", future |-> "none", resolutions |-> 0, timer |-> "off",
      remaining |-> 0, waited |-> 0, timed_out |-> FALSE, exec_calls |-> 0, sent |-> 0,
      ret |-> NotReturned ]

\* asyncio.Future.done()
FutureDone(f) == f \in {"true", "false", "cancelled"}

\* execute_with_approval asking for the transport before it looks at the risk level
GateBegin_TransportFirst ==
    /\ Len(reqs) < MaxRequests
    /\ \E tool_name \in GateTools, has_transport \in BOOLEAN :
         LET r == NewRequest(tool_name, has_transport)
         IN  reqs' = Append(reqs,
               IF ~has_transport
               THEN [r EXCEPT !.pc = "done",
                              !.ret = [approved |-> FALSE, result |-> "None",
                                       approval_level |-> r.risk]]
               ELSE IF r.risk = "AUTO"
               THEN [r EXCEPT !.exec_calls = 1, !.pc = "done",
                              !.ret = [approved |-> TRUE, result |-> "result",
                                       approval_level |-> r.risk]]
               ELSE [r EXCEPT !.pc = "sending", !.sent = 1])
    /\ UNCHANGED << pending, answers, routerVars, reloadVars, extVars >>

\* execute_with_approval without the "bot is None or chat_id is None" return of
\* lines 82-87
GateBegin_NoTransportTest ==
    /\ Len(reqs) < MaxRequests
    /\ \E tool_name \in GateTools, has_transport \in BOOLEAN :
         LET r == NewRequest(tool_name, has_transport)
         IN  reqs' = Append(reqs,
               IF r.risk = "AUTO"
               THEN [r EXCEPT !.exec_calls = 1, !.pc = "done",
                              !.ret = [approved |-> TRUE, result |-> "result",
                                       approval_level |-> r.risk]]
               ELSE [r EXCEPT !.pc = "sending", !.sent = 1])
    /\ UNCHANGED << pending, answers, routerVars, reloadVars, extVars >>

\* execute_with_approval up to its first suspension (approval_gate.py:74-91 and
\* _request_approval up to the await of bot.send_message, line 168)
GateBegin ==
    /\ Len(reqs) < MaxRequests
    /\ \E tool_name \in GateTools, has_transport \in BOOLEAN :
         LET r == NewRequest(tool_name, has_transport)
         IN  reqs' = Append(reqs,
               IF r.risk = "AUTO"
               THEN [r EXCEPT !.exec_calls = 1, !.pc = "done",
                              !.ret = [approved |-> TRUE, result |-> "result",
                                       approval_level |-> r.risk]]
               ELSE IF ~has_transport
               THEN [r EXCEPT !.pc = "done",
                              !.ret = [approved |-> FALSE, result |-> "None",
                                       approval_level |-> r.risk]]
               ELSE [r EXCEPT !.pc = "sending", !.sent = 1])
    /\ UNCHANGED << pending, answers, routerVars, reloadVars, extVars >>

\* _request_approval after send_message returned (lines 170-176): the future is
\* created and parked under the callback id, and wait_for arms its timer.
GatePark ==
    /\ \E id \in DOMAIN reqs :
         /\ reqs[id].pc = "sending"
         /\ reqs' = [reqs EXCEPT ![id].pc = "waiting", ![id].future = "pending",
                                 ![id].timer = "armed",
                                 ![id].remaining = _TIMEOUTS[reqs[id].risk]]
         /\ pending' = pending \cup {id}
    /\ UNCHANGED << answers, routerVars, reloadVars, extVars >>

\* handle_callback without the future.done() test of line 111
HandleCallback_NoDoneTest ==
    /\ \E action \in {"approve", "deny"},
          id \in {StaleId} \cup { i \in DOMAIN reqs : reqs[i].sent > 0 } :
         IF id \notin pending
         THEN /\ answers' = answers \cup {[id |-> id, text |-> "expired"]}
              /\ UNCHANGED << reqs, pending >>
         ELSE /\ pending' = pending \ {id}
              /\ reqs' = [reqs EXCEPT
                            ![id].future = IF action = "approve" THEN "true" ELSE "false",
                            ![id].resolutions = @ + 1]
              /\ answers' = answers \cup
                    {[id |-> id,
                      text |-> IF action = "approve" THEN "Approved" ELSE "Denied"]}
    /\ UNCHANGED << routerVars, reloadVars, extVars >>

\* handle_callback emptying the pending table when it answers "expired"
HandleCallback_ClearsPending ==
    /\ \E action \in {"approve", "deny"},
          id \in {StaleId} \cup { i \in DOMAIN reqs : reqs[i].sent > 0 } :
         IF id \notin pending \/ FutureDone(reqs[id].future)
         THEN /\ pending' = {}
              /\ answers' = answers \cup {[id |-> id, text |-> "expired"]}
              /\ UNCHANGED reqs
         ELSE /\ pending' = pending \ {id}
              /\ reqs' = [reqs EXCEPT
                            ![id].future = IF action = "approve" THEN "true" ELSE "false",
                            ![id].resolutions = @ + 1]
              /\ answers' = answers \cup
                    {[id |-> id,
                      text |-> IF action = "approve" THEN "Approved" ELSE "Denied"]}
    /\ UNCHANGED << routerVars, reloadVars, extVars >>

\* handle_callback (lines 104-126) up to its first await
HandleCallback ==
    /\ \E action \in {"approve", "deny"},
          id \in {StaleId} \cup { i \in DOMAIN reqs : reqs[i].sent > 0 } :
         IF id \notin pending \/ FutureDone(reqs[id].future)
         THEN /\ pending' = pending \ {id}
              /\ answers' = answers \cup {[id |-> id, text |-> "expired"]}
              /\ UNCHANGED reqs
         ELSE /\ pending' = pending \ {id}
              /\ reqs' = [reqs EXCEPT
                            ![id].future = IF action = "approve" THEN "true" ELSE "false",
                            ![id].resolutions = @ + 1]
              /\ answers' = answers \cup
                    {[id |-> id,
                      text |-> IF action = "approve" THEN "Approved" ELSE "Denied"]}
    /\ UNCHANGED << routerVars, reloadVars, extVars >>

\* A request whose wait_for can return: its future is done or its timeout struck
Resumable(r) == r.pc = "waiting" /\ (FutureDone(r.future) \/ r.timed_out)

\* The seconds until the next armed timer is due
NextDue ==
    LET left == { reqs[id].remaining : id \in { i \in DOMAIN reqs : reqs[i].timer = "armed" } }
    IN  CHOOSE d \in left : \A e \in left : d <= e

\* Time passes until the next armed timer is due: every armed timer comes that much
\* closer. A due timer runs, and a resumable task resumes, before more time passes.
Tick ==
    /\ \E id \in DOMAIN reqs : reqs[id].timer = "armed"
    /\ \A id \in DOMAIN reqs :
         /\ reqs[id].timer = "armed" => reqs[id].remaining > 0
         /\ ~Resumable(reqs[id])
    /\ reqs' = [id \in DOMAIN reqs |->
                  IF reqs[id].timer = "armed"
                  THEN [reqs[id] EXCEPT !.remaining = @ - NextDue, !.waited = @ + NextDue]
                  ELSE reqs[id]]
    /\ UNCHANGED << pending, answers, routerVars, reloadVars, extVars >>

\* wait_for's timeout strikes (line 176). A future that is still pending is
\* cancelled. When a callback resolved the future in the same loop iteration, the
\* outcome depends on the interpreter: wait_for returns the result (Python <= 3.11)
\* or the waiting task is cancelled and TimeoutError is raised (Python >= 3.12).
TimerFires ==
    /\ \E id \in DOMAIN reqs :
         /\ reqs[id].pc = "waiting"
         /\ reqs[id].timer = "armed"
         /\ reqs[id].remaining = 0
         /\ IF reqs[id].future = "pending"
            THEN reqs' = [reqs EXCEPT ![id].timer = "fired", ![id].future = "cancelled",
                                      ![id].resolutions = @ + 1, ![id].timed_out = TRUE]
            ELSE \E raises \in BOOLEAN :
                   reqs' = [reqs EXCEPT ![id].timer = "fired", ![id].timed_out = raises]
    /\ UNCHANGED << pending, answers, routerVars, reloadVars, extVars >>

\* execute_with_approval without the "if not approved" return of lines 93-94
GateResume_NoApprovedTest ==
    /\ \E id \in DOMAIN reqs :
         LET r == reqs[id]
         IN  /\ Resumable(r)
             /\ IF r.timed_out
                THEN /\ pending' = pending \ {id}
                     /\ reqs' = [reqs EXCEPT ![id].pc = "notifying", ![id].timer = "off",
                                             ![id].sent = @ + 1]
                ELSE /\ UNCHANGED pending
                     /\ reqs' = [reqs EXCEPT ![id] =
                          [r EXCEPT !.pc = "done", !.timer = "off", !.exec_calls = @ + 1,
                                    !.ret = [approved |-> TRUE, result |-> "result",
                                             approval_level |-> r.risk]]]
    /\ UNCHANGED << answers, routerVars, reloadVars, extVars >>

\* _request_approval without the pop of line 179 in its TimeoutError handler
GateResume_KeepsPending ==
    /\ \E id \in DOMAIN reqs :
         LET r == reqs[id]
         IN  /\ Resumable(r)
             /\ UNCHANGED pending
             /\ IF r.timed_out
                THEN reqs' = [reqs EXCEPT ![id].pc = "notifying", ![id].timer = "off",
                                          ![id].sent = @ + 1]
                ELSE reqs' = [reqs EXCEPT ![id] =
                          IF r.future = "true"
                          THEN [r EXCEPT !.pc = "done", !.timer = "off", !.exec_calls = @ + 1,
                                         !.ret = [approved |-> TRUE, result |-> "result",
                                                  approval_level |-> r.risk]]
                          ELSE [r EXCEPT !.pc = "done", !.timer = "off",
                                         !.ret = [approved |-> FALSE, result |-> "None",
                                                  approval_level |-> r.risk]]]
    /\ UNCHANGED << answers, routerVars, reloadVars, extVars >>

\* _request_approval resumes from wait_for (lines 176-183) and, unless it timed
\* out, execute_with_approval runs to its return (lines 93-97).
GateResume ==
    /\ \E id \in DOMAIN reqs :
         LET r == reqs[id]
         IN  /\ Resumable(r)
             /\ IF r.timed_out
                THEN /\ pending' = pending \ {id}
                     /\ reqs' = [reqs EXCEPT ![id].pc = "notifying", ![id].timer = "off",
                                             ![id].sent = @ + 1]
                ELSE /\ UNCHANGED pending
                     /\ reqs' = [reqs EXCEPT ![id] =
                          IF r.future = "true"
                          THEN [r EXCEPT !.pc = "done", !.timer = "off", !.exec_calls = @ + 1,
                                         !.ret = [approved |-> TRUE, result |-> "result",
                                                  approval_level |-> r.risk]]
                          ELSE [r EXCEPT !.pc = "done", !.timer = "off",
                                         !.ret = [approved |-> FALSE, result |-> "None",
                                                  approval_level |-> r.risk]]]
    /\ UNCHANGED << answers, routerVars, reloadVars, extVars >>

\* The timeout notice was sent (line 180-184): _request_approval returns False and
\* execute_with_approval returns the denial (lines 93-94).
GateTimedOut ==
    /\ \E id \in DOMAIN reqs :
         /\ reqs[id].pc = "notifying"
         /\ reqs' = [reqs EXCEPT ![id].pc = "done",
                                 ![id].ret = [approved |-> FALSE, result |-> "None",
                                              approval_level |-> reqs[id].risk]]
    /\ UNCHANGED << pending, answers, routerVars, reloadVars, extVars >>

(***************************************************************************)
(* Hot reload (polaris/services/hot_reload.py) and the skill registry      *)
(* (polaris/skills/registry.py). check_and_apply runs on the event-loop    *)
(* thread; SkillRegistry.match runs on the worker thread of route. The     *)
(* watched files exist when the watcher is constructed. A skill table is   *)
(* modelled by the names of the skills it holds.                           *)
(***************************************************************************)
\* The largest st_mtime a watched file takes
MaxMtime == 2
\* The seconds that pass after the construction of the watcher
MaxTicks == 3

\* HotReloader(check_interval=2.0), in seconds
check_interval == 2

\* _iter_watch_files: a runtime data file and a code file
WatchFiles ==
    { [path |-> "skills/hpc_monitor", suffix |-> ".md"],
      [path |-> "polaris/router", suffix |-> ".py"] }

\* The watched files under skills/ ("skills/**/*.md", hot_reload.py:37)
SkillFiles == { f \in WatchFiles : f.path = "skills/hpc_monitor" }

\* The files check_and_apply reloads the runtime for (hot_reload.py:107)
RuntimeSuffixes == {".md", ".json", ".yaml", ".yml"}

\* SkillLoader.list_skills: the skills of the skills directory, in file order
InternalSkills == [i \in DOMAIN SkillIndex |-> SkillIndex[i].name]
\* SkillLoader.scan_external_skills: the skills found on the external paths
ExternalSkills == << "external_skill" >>

ReloaderIdle == [pc |-> "idle", todo |-> << >>, old |-> {}, new |-> {}]
MatcherIdle ==
    [pc |-> "idle", view |-> "none", size |-> 0, content |-> {}, allowed |-> {},
     result |-> {}, raised |-> FALSE]

\* A thread iterating over the table keeps the dict object it started on: when the
\* registry is rebound to another dict, the thread goes on reading the old one,
\* which nothing mutates any more.
Detach(m, old, new) ==
    IF m.pc # "iterating" THEN m
    ELSE [m EXCEPT !.view = "detached",
                   !.content = IF m.view = "live" THEN _index ELSE @,
                   !.allowed = @ \cup {old, new}]

\* path.exists() and path.is_file(): a file that is gone has no st_mtime, which
\* the model writes as 0
Exists(f) == mtime[f] > 0
\* The snapshot has a key for the file; a missing key is written as 0
InSnapshot(f) == _watch_mtimes[f] > 0

\* Time passes
TickClock ==
    /\ now < check_interval + MaxTicks
    /\ now' = now + 1
    /\ UNCHANGED << mtime, _watch_mtimes, _last_check, modified, last_check, _index,
                    reloader, matcher, routerVars, gateVars, extVars >>

\* A watched file is modified, or written anew after it was deleted, and its
\* st_mtime changes. A write stamps the file
\* with the current time; a rename over the file, or a copy that keeps times,
\* leaves it with any other time, a smaller one included.
ModifyFile ==
    /\ \E f \in WatchFiles :
       \E m \in (1..MaxMtime) \ {mtime[f]} :
         /\ mtime' = [mtime EXCEPT ![f] = m]
         /\ modified' = IF f.suffix \in RuntimeSuffixes THEN modified \cup {f}
                        ELSE modified
    /\ UNCHANGED << now, _watch_mtimes, _last_check, last_check, _index, reloader,
                    matcher, routerVars, gateVars, extVars >>

\* A watched skill file is deleted: the glob of _iter_watch_files yields it no more
DeleteFile ==
    /\ \E f \in SkillFiles :
         /\ Exists(f)
         /\ mtime' = [mtime EXCEPT ![f] = 0]
         /\ modified' = modified \ {f}
    /\ UNCHANGED << now, _watch_mtimes, _last_check, last_check, _index, reloader,
                    matcher, routerVars, gateVars, extVars >>

\* _detect_changed_files reporting the files of the snapshot that are gone as well
_detect_changed_files_WithDeleted ==
    { f \in WatchFiles : IF Exists(f)
                         THEN ~InSnapshot(f) \/ mtime[f] > _watch_mtimes[f]
                         ELSE InSnapshot(f) }

\* HotReloader._detect_changed_files: the files that exist and are new to the
\* snapshot or have an mtime above the snapshot's
_detect_changed_files ==
    { f \in WatchFiles : /\ Exists(f)
                         /\ ~InSnapshot(f) \/ mtime[f] > _watch_mtimes[f] }

\* HotReloader.check_and_apply with auto_reload on, up to the first effect of the
\* reload callback that other threads can see: PolarisRouter._init_skills builds a
\* new SkillRegistry, whose constructor scans the skills directory, and binds
\* router.skill_registry to it (router.py:206).
CheckAndApply ==
    /\ reloader.pc = "idle"
    /\ IF now - _last_check < check_interval
       THEN /\ last_check' = [kind |-> "throttled", modified |-> modified, reloads |-> 0]
            /\ UNCHANGED << _last_check, _watch_mtimes, modified, _index, reloader,
                            matcher >>
       ELSE LET changed == _detect_changed_files
                runtime_changed == { f \in changed : f.suffix \in RuntimeSuffixes }
                new == Range(InternalSkills) \cup Range(ExternalSkills)
            IN  /\ _last_check' = now
                /\ _watch_mtimes' = mtime
                /\ modified' = {}
                /\ last_check' = [kind |-> "checked",
                                  modified |-> { f \in modified :
                                                   mtime[f] # _watch_mtimes[f] },
                                  reloads |-> IF runtime_changed # {} THEN 1 ELSE 0]
                /\ IF runtime_changed # {}
                   THEN /\ _index' = Range(InternalSkills)
                        /\ reloader' = [pc |-> "external", todo |-> ExternalSkills,
                                        old |-> _index, new |-> new]
                        /\ matcher' = Detach(matcher, _index, new)
                   ELSE UNCHANGED << _index, reloader, matcher >>
    /\ UNCHANGED << now, mtime, routerVars, gateVars, extVars >>

\* SkillRegistry.register_external_skills (registry.py:83-86): one more external
\* skill is put into the table that is already bound to the router
RegisterExternalSkill ==
    /\ reloader.pc = "external"
    /\ reloader.todo # << >>
    /\ _index' = _index \cup {Head(reloader.todo)}
    /\ reloader' = IF Tail(reloader.todo) = << >> THEN ReloaderIdle
                   ELSE [reloader EXCEPT !.todo = Tail(@)]
    /\ UNCHANGED << now, mtime, _watch_mtimes, _last_check, modified, last_check,
                    matcher, routerVars, gateVars, extVars >>

\* SkillRegistry.refresh -> _scan (registry.py:23): the registry is bound to a new,
\* empty dict
Refresh ==
    /\ reloader.pc = "idle"
    /\ _index' = {}
    /\ reloader' = [pc |-> "scan", todo |-> InternalSkills, old |-> _index,
                    new |-> Range(InternalSkills)]
    /\ matcher' = Detach(matcher, _index, Range(InternalSkills))
    /\ UNCHANGED << now, mtime, _watch_mtimes, _last_check, modified, last_check,
                    routerVars, gateVars, extVars >>

\* _scan (registry.py:24-27): one more skill is put into the bound dict
ScanAdd ==
    /\ reloader.pc = "scan"
    /\ reloader.todo # << >>
    /\ _index' = _index \cup {Head(reloader.todo)}
    /\ reloader' = IF Tail(reloader.todo) = << >> THEN ReloaderIdle
                   ELSE [reloader EXCEPT !.todo = Tail(@)]
    /\ UNCHANGED << now, mtime, _watch_mtimes, _last_check, modified, last_check,
                    matcher, routerVars, gateVars, extVars >>

\* SkillRegistry.match (registry.py:51): the iteration over self._index.values()
\* starts
MatchBegin ==
    /\ matcher.pc \in {"idle", "done"}
    /\ matcher' = [pc |-> "iterating", view |-> "live", size |-> Cardinality(_index),
                   content |-> {},
                   allowed |-> IF reloader.pc = "idle" THEN {_index}
                               ELSE {reloader.old, reloader.new},
                   result |-> {}, raised |-> FALSE]
    /\ UNCHANGED << now, mtime, _watch_mtimes, _last_check, modified, last_check,
                    _index, reloader, routerVars, gateVars, extVars >>

\* The iteration runs (registry.py:51-55). A dict whose size changed since the
\* iteration started raises RuntimeError; otherwise the thread has seen the entries
\* its dict holds.
MatchEnd ==
    /\ matcher.pc = "iterating"
    /\ matcher' =
         IF matcher.view = "live"
         THEN IF Cardinality(_index) # matcher.size
              THEN [matcher EXCEPT !.pc = "done", !.raised = TRUE]
              ELSE [matcher EXCEPT !.pc = "done", !.result = _index]
         ELSE [matcher EXCEPT !.pc = "done", !.result = matcher.content]
    /\ UNCHANGED << now, mtime, _watch_mtimes, _last_check, modified, last_check,
                    _index, reloader, routerVars, gateVars, extVars >>

(***************************************************************************)
(* The vault indexer: memory/vault_reader.py                               *)
(***************************************************************************)
MaxVaultTime == 7

\* the .md files a vault may hold
VaultPaths == << "10_Projects/a.md", "20_Areas/b.md" >>

\* Path(filepath).stem
stem(filepath) == IF filepath = VaultPaths[1] THEN "a" ELSE "b"

\* a path scan_vault does not return: no such file, or one in a skipped
\* directory, or one below MIN_FILE_SIZE
NoNote == [indexable |-> FALSE, modified_time |-> 0, content |-> ""]

\* what parse_note can return as content: "" when the file cannot be read or
\* nothing is left after _strip_markdown
NoteContents == {"", "text"}

scan_vault ==
    LET kept == SelectSeq(VaultPaths, LAMBDA p : notes[p].indexable)
    IN [i \in DOMAIN kept |->
            [path |-> kept[i], title |-> stem(kept[i]),
             modified_time |-> notes[kept[i]].modified_time]]

parse_note(filepath) ==
    [title |-> stem(filepath), content |-> notes[filepath].content, path |-> filepath]

\* save_knowledge inserts one row and returns its id
save_knowledge(rows, title, source) == Append(rows, [title |-> title, source |-> source])

\* index_note: the row id, 0 when save_knowledge raised or there is no memory
index_note(rows, saved) == IF saved THEN Len(rows) + 1 ELSE 0

\* The incremental test of index_vault with force off: the note is in the index
\* and was not modified after it was indexed.
AlreadyIndexed_Never(index, note_info) == FALSE

AlreadyIndexed(index, note_info) ==
    /\ note_info.path \in DOMAIN index
    /\ note_info.modified_time <= index[note_info.path].indexed_time

EmptyIndex == [p \in {} |-> 0]

NoStats == [total |-> 0, new |-> 0, updated |-> 0, skipped |-> 0, errors |-> 0]

\* The loop of index_vault from note i on; saves tells, per path, whether
\* save_knowledge succeeds for it in this run.
RECURSIVE IndexFrom(_, _, _, _, _)
IndexFrom(i, scanned, force, saves, acc) ==
    IF i > Len(scanned) THEN acc
    ELSE
        LET filepath == scanned[i].path
            parsed == parse_note(filepath)
            row_id == index_note(acc.rows, saves[filepath])
            entry == [indexed_time |-> vault_now, title |-> parsed.title,
                      knowledge_id |-> row_id]
            step ==
                IF ~force /\ AlreadyIndexed(acc.index, scanned[i])
                THEN [acc EXCEPT !.stats.skipped = @ + 1]
                ELSE IF parsed.content = ""
                THEN [acc EXCEPT !.stats.skipped = @ + 1]
                ELSE IF row_id > 0
                THEN [index |-> [p \in DOMAIN acc.index \cup {filepath} |->
                                    IF p = filepath THEN entry ELSE acc.index[p]],
                      rows |-> save_knowledge(acc.rows, parsed.title, "obsidian"),
                      stats |-> IF filepath \in DOMAIN acc.index
                                THEN [acc.stats EXCEPT !.updated = @ + 1]
                                ELSE [acc.stats EXCEPT !.new = @ + 1]]
                ELSE [acc EXCEPT !.stats.errors = @ + 1]
        IN IndexFrom(i + 1, scanned, force, saves, step)

\* VaultReader.index_vault(force=...)
index_vault ==
    /\ vault_now < MaxVaultTime
    /\ \E force \in BOOLEAN : \E saves \in [Range(VaultPaths) -> BOOLEAN] :
        LET scanned == scan_vault
            start == [index |-> IF force THEN EmptyIndex ELSE vault_index,
                      rows |-> knowledge,
                      stats |-> [NoStats EXCEPT !.total = Len(scanned)]]
            end == IndexFrom(1, scanned, force, saves, start)
            run == [force |-> force, stats |-> end.stats, changed |-> vault_changed]
        IN /\ vault_index' = end.index
           /\ knowledge' = end.rows
           /\ index_runs' = IF index_runs = << >> THEN << run >>
                            ELSE << index_runs[Len(index_runs)], run >>
    /\ vault_changed' = FALSE
    /\ vault_now' = vault_now + 1
    /\ UNCHANGED << notes, coreVars, voteVars, traceVars, mailVars, pollVars, memVars >>

\* the user creates or edits a note that the scanner keeps
WriteNote ==
    /\ vault_now < MaxVaultTime
    /\ \E p \in Range(VaultPaths) : \E c \in NoteContents :
        notes' = [notes EXCEPT ![p] = [indexable |-> TRUE, modified_time |-> vault_now,
                                       content |-> c]]
    /\ vault_changed' = TRUE
    /\ vault_now' = vault_now + 1
    /\ UNCHANGED << vault_index, knowledge, index_runs, coreVars, voteVars, traceVars, mailVars, pollVars, memVars >>

\* the user deletes a note, or moves it where the scanner skips it
RemoveNote ==
    /\ vault_now < MaxVaultTime
    /\ \E p \in Range(VaultPaths) :
        /\ notes[p].indexable
        /\ notes' = [notes EXCEPT ![p] = NoNote]
    /\ vault_changed' = TRUE
    /\ vault_now' = vault_now + 1
    /\ UNCHANGED << vault_index, knowledge, index_runs, coreVars, voteVars, traceVars, mailVars, pollVars, memVars >>

\* An empty vault, no vault_index.json and an empty knowledge table.
VaultIdle ==
    /\ vault_now = 1
    /\ notes = [p \in Range(VaultPaths) |-> NoNote]
    /\ vault_index = EmptyIndex
    /\ knowledge = << >>
    /\ vault_changed = FALSE
    /\ index_runs = << >>

(***************************************************************************)
(* The ensemble voter: rlm_wrapper.py                                      *)
(***************************************************************************)
n_inferences == 3
MaxCorrections == 2

ValidLabels == {"ACTION", "FYI"}

\* config.fallback_category
UNCERTAIN == "UNCERTAIN"

\* what _single_inference can return: a label, or "ERROR: ..." when the
\* classifier raised, or whatever else the classifier answered
InferenceResults == ValidLabels \cup {"ERROR: timeout"}

Subjects == {"Invoice", "Seminar"}

\* confidence_threshold values, as fractions
Thresholds == {[num |-> 1, den |-> 2], [num |-> 7, den |-> 10], [num |-> 1, den |-> 1]}

NoConfig == [loaded |-> FALSE, min_quorum |-> 0, confidence_threshold |-> [num |-> 0, den |-> 1],
             contradiction_mode |-> "disabled"]

\* RLMConfig.__init__ reads the YAML file
RLMConfig ==
    /\ ~rlm_config.loaded
    /\ \E q \in 1..n_inferences : \E t \in Thresholds : \E mode \in {"exact", "disabled"} :
        rlm_config' = [loaded |-> TRUE, min_quorum |-> q, confidence_threshold |-> t,
                       contradiction_mode |-> mode]
    /\ UNCHANGED << corrections, classified, coreVars, vaultVars, traceVars, mailVars, pollVars, memVars >>

Count(votes, label) == Len(SelectSeq(votes, LAMBDA v : v = label))

FirstIndex(votes, label) == CHOOSE i \in DOMAIN votes :
    votes[i] = label /\ \A j \in 1..(i - 1) : votes[j] # label

\* Counter(votes).most_common(1)[0]: the highest count, the label counted first
\* winning a tie
most_common(votes) ==
    LET label == CHOOSE l \in Range(votes) : \A m \in Range(votes) :
                    \/ Count(votes, l) > Count(votes, m)
                    \/ Count(votes, l) = Count(votes, m)
                        /\ FirstIndex(votes, l) <= FirstIndex(votes, m)
    IN [label |-> label, count |-> Count(votes, label)]

\* a / b < c.num / c.den
RatioLess(a, b, c) == a * c.den < c.num * b

vote_classify_ThresholdInclusive(results, config) ==
    LET successful_votes == SelectSeq(results, LAMBDA r : r \in ValidLabels)
        majority == most_common(successful_votes)
        confidence == [num |-> majority.count, den |-> Len(successful_votes)]
    IN IF Len(successful_votes) < config.min_quorum
       THEN [category |-> UNCERTAIN, confidence |-> [num |-> 0, den |-> 1],
             votes |-> successful_votes]
       ELSE IF ~RatioLess(config.confidence_threshold.num, config.confidence_threshold.den,
                          confidence)
       THEN [category |-> UNCERTAIN, confidence |-> confidence, votes |-> successful_votes]
       ELSE [category |-> majority.label, confidence |-> confidence,
             votes |-> successful_votes]

\* EnsembleVoter.vote_classify, given what the n inferences returned
vote_classify(results, config) ==
    LET successful_votes == SelectSeq(results, LAMBDA r : r \in ValidLabels)
        majority == most_common(successful_votes)
        confidence == [num |-> majority.count, den |-> Len(successful_votes)]
    IN IF Len(successful_votes) < config.min_quorum
       THEN [category |-> UNCERTAIN, confidence |-> [num |-> 0, den |-> 1],
             votes |-> successful_votes]
       ELSE IF RatioLess(confidence.num, confidence.den, config.confidence_threshold)
       THEN [category |-> UNCERTAIN, confidence |-> confidence, votes |-> successful_votes]
       ELSE [category |-> majority.label, confidence |-> confidence,
             votes |-> successful_votes]

check_contradictions_ThreeMatches(subject, config) ==
    LET matches == SelectSeq(corrections, LAMBDA c : c.subject = subject)
    IN /\ config.contradiction_mode # "disabled"
       /\ Len(matches) > 2
       /\ Cardinality({matches[i].corrected_label : i \in DOMAIN matches}) > 1

\* RecursiveController.check_contradictions: whether it returns a warning
check_contradictions(subject, config) ==
    LET matches == SelectSeq(corrections, LAMBDA c : c.subject = subject)
    IN /\ config.contradiction_mode # "disabled"
       /\ ~(Len(matches) < 2)
       /\ Cardinality({matches[i].corrected_label : i \in DOMAIN matches}) > 1

NotClassified == [called |-> FALSE, subject |-> "", log |-> << >>, results |-> << >>,
                  inferences |-> 0, category |-> "", confidence |-> [num |-> 0, den |-> 1],
                  votes |-> << >>]

\* RLMWrapper.classify_with_ensemble(classify_func, mail).  classified keeps one
\* call: a later call would replace the record by one computed the same way.
classify_with_ensemble ==
    /\ rlm_config.loaded
    /\ ~classified.called
    /\ \E subject \in Subjects : \E results \in [1..n_inferences -> InferenceResults] :
        classified' =
            IF check_contradictions(subject, rlm_config)
            THEN [called |-> TRUE, subject |-> subject, log |-> corrections,
                  results |-> << >>, inferences |-> 0, category |-> UNCERTAIN,
                  confidence |-> [num |-> 0, den |-> 1], votes |-> << >>]
            ELSE LET voted == vote_classify(results, rlm_config)
                 IN [called |-> TRUE, subject |-> subject, log |-> corrections,
                     results |-> results, inferences |-> n_inferences,
                     category |-> voted.category, confidence |-> voted.confidence,
                     votes |-> voted.votes]
    /\ UNCHANGED << rlm_config, corrections, coreVars, vaultVars, traceVars, mailVars, pollVars, memVars >>

\* polaris_bot's correction handler appends one line to corrections.jsonl
AppendCorrection ==
    /\ Len(corrections) < MaxCorrections
    /\ \E subject \in Subjects : \E label \in ValidLabels :
        corrections' = Append(corrections, [subject |-> subject, corrected_label |-> label])
    /\ UNCHANGED << rlm_config, classified, coreVars, vaultVars, traceVars, mailVars, pollVars, memVars >>

\* No configuration loaded, no corrections.jsonl and nothing classified.
VoteIdle ==
    /\ rlm_config = NoConfig
    /\ corrections = << >>
    /\ classified = NotClassified

(***************************************************************************)
(* The trace logger: trace_logger.py                                       *)
(***************************************************************************)
MaxTraceRows == 3

TraceTools == {"search_arxiv", "send_email"}
TraceSessions == {"sess-1", "sess-2"}

\* ORDER BY id DESC
Descending(rows) == [i \in DOMAIN rows |-> rows[Len(rows) + 1 - i]]

\* LIMIT ?
Limit(rows, limit) == SubSeq(rows, 1, IF limit < Len(rows) THEN limit ELSE Len(rows))

log_ReplacesSession ==
    /\ Len(trace_table) < MaxTraceRows
    /\ \E tool \in TraceTools : \E session_id \in TraceSessions :
        trace_table' =
            Append(SelectSeq(trace_table, LAMBDA r : r.session_id # session_id),
                   [id |-> Len(trace_table) + 1, timestamp |-> Len(trace_table) + 1,
                    tool |-> tool, approval_level |-> "AUTO", session_id |-> session_id])
    /\ UNCHANGED << trace_result, coreVars, vaultVars, voteVars, mailVars, pollVars, memVars >>

\* TraceLogger.log: INSERT with the AUTOINCREMENT id and datetime.utcnow(), which
\* is later at every call
log ==
    /\ Len(trace_table) < MaxTraceRows
    /\ \E tool \in TraceTools : \E session_id \in TraceSessions :
        trace_table' =
            Append(trace_table,
                   [id |-> Len(trace_table) + 1, timestamp |-> Len(trace_table) + 1,
                    tool |-> tool, approval_level |-> "AUTO", session_id |-> session_id])
    /\ UNCHANGED << trace_result, coreVars, vaultVars, voteVars, mailVars, pollVars, memVars >>

by_session(session_id, limit) ==
    Limit(Descending(SelectSeq(trace_table, LAMBDA r : r.session_id = session_id)), limit)

by_tool(tool_name, limit) ==
    Limit(Descending(SelectSeq(trace_table, LAMBDA r : r.tool = tool_name)), limit)

by_date_range(start_date, end_date) ==
    SelectSeq(trace_table, LAMBDA r : start_date <= r.timestamp /\ r.timestamp <= end_date)

\* export_json(session_id), "" standing for None: both are falsy
export_json(session_id) ==
    IF session_id # "" THEN SelectSeq(trace_table, LAMBDA r : r.session_id = session_id)
    ELSE trace_table

get_recent(limit) == Limit(Descending(trace_table), limit)

\* a call of one of the query methods
TraceQuery ==
    /\ \E limit \in {1, 10} : \E first, last \in 1..MaxTraceRows :
        trace_result' \in
            {by_session(x, limit) : x \in TraceSessions}
                \cup {by_tool(t, limit) : t \in TraceTools}
                \cup {by_date_range(first, last)}
                \cup {export_json(x) : x \in TraceSessions \cup {""}}
                \cup {get_recent(limit)}
    /\ UNCHANGED << trace_table, coreVars, vaultVars, voteVars, mailVars, pollVars, memVars >>

\* TraceLogger.__init__ on a new trace.db
TraceIdle ==
    /\ trace_table = << >>
    /\ trace_result = << >>

(***************************************************************************)
(* Mail triage: mailops/store.py, service.py, ingest.py, classifier.py     *)
(***************************************************************************)
MaxFetch == 2

\* The unread mails Apple Mail can hand over: the fields _normalize hashes
\* (here the subject) and the part of the body preview beyond the hashed
\* 160 characters.
UnreadMails == [subject : {"URGENT deadline", "Weekly sale"},
                tail : {"", "due today"}]

\* _normalize: sha1 over the account, sender, subject, date and content[:160]
ext_id(mail) == << "sha1", mail.subject >>

ExtIds == {ext_id(m) : m \in UnreadMails}

URGENT_PATTERNS == {"URGENT deadline", "due today"}
PROMO_PATTERNS == {"Weekly sale"}

\* MailOpsClassifier.classify(message)["category"]
classify(mail) ==
    IF mail.subject \in URGENT_PATTERNS \/ mail.tail \in URGENT_PATTERNS THEN "urgent"
    ELSE IF mail.subject \in PROMO_PATTERNS \/ mail.tail \in PROMO_PATTERNS THEN "promo"
    ELSE "info"

\* upsert_message: INSERT OR IGNORE
upsert_message(rows, mail) ==
    IF ext_id(mail) \in Range(rows) THEN rows ELSE Append(rows, ext_id(mail))

\* save_classification: INSERT ... ON CONFLICT(ext_id) DO UPDATE
save_classification(rows, id, category) ==
    [x \in DOMAIN rows \cup {id} |-> IF x = id THEN category ELSE rows[x]]

\* the loop of sync_unread from message i on
RECURSIVE SyncFrom(_, _, _)
SyncFrom(i, fetched, acc) ==
    IF i > Len(fetched) THEN acc
    ELSE SyncFrom(i + 1, fetched,
                  [messages |-> upsert_message(acc.messages, fetched[i]),
                   classification |-> save_classification(acc.classification,
                                          ext_id(fetched[i]), classify(fetched[i]))])

FetchUnread == UNION {[1..n -> UnreadMails] : n \in 1..MaxFetch}

sync_unread_ForgetsAlerts ==
    \E fetched \in FetchUnread :
        LET end == SyncFrom(1, fetched,
                     [messages |-> mail_messages, classification |-> mail_classification])
            ids == {ext_id(fetched[i]) : i \in DOMAIN fetched}
        IN /\ mail_messages' = end.messages
           /\ mail_classification' = end.classification
           /\ resynced' = resynced \cup (ids \cap alerted)
           /\ mail_alerts' = {a \in mail_alerts : a[1] \notin ids}
           /\ UNCHANGED << alerted, unalerted, coreVars, vaultVars, voteVars, traceVars, pollVars, memVars >>

\* MailOpsService.sync_unread
sync_unread ==
    \E fetched \in FetchUnread :
        LET end == SyncFrom(1, fetched,
                     [messages |-> mail_messages, classification |-> mail_classification])
            ids == {ext_id(fetched[i]) : i \in DOMAIN fetched}
        IN /\ mail_messages' = end.messages
           /\ mail_classification' = end.classification
           /\ resynced' = resynced \cup (ids \cap alerted)
           /\ UNCHANGED << mail_alerts, alerted, unalerted, coreVars, vaultVars, voteVars, traceVars, pollVars, memVars >>

\* MailOpsStore.list_unalerted_urgent(limit); the mails were received in the
\* order they were inserted
list_unalerted_urgent ==
    /\ \E limit \in {1, 5} :
        unalerted' =
            [calls |-> 1 - unalerted.calls,
             rows |-> Limit(Descending(SelectSeq(mail_messages, LAMBDA id :
                            /\ id \in DOMAIN mail_classification
                            /\ mail_classification[id] = "urgent"
                            /\ << id, "urgent" >> \notin mail_alerts)), limit)]
    /\ UNCHANGED << mail_messages, mail_classification, mail_alerts, alerted, resynced,
                    coreVars, vaultVars, voteVars, traceVars, pollVars, memVars >>

\* MailOpsStore.mark_alerted(ext_id, alert_type): INSERT OR IGNORE
mark_alerted ==
    /\ \E id \in ExtIds : \E alert_type \in {"urgent", "digest"} :
        /\ mail_alerts' = mail_alerts \cup {<< id, alert_type >>}
        /\ alerted' = IF alert_type = "urgent" THEN alerted \cup {id} ELSE alerted
    /\ UNCHANGED << mail_messages, mail_classification, resynced, unalerted,
                    coreVars, vaultVars, voteVars, traceVars, pollVars, memVars >>

\* The query of list_unalerted_urgent over the given tables
unalerted_urgent_rows(mails, categories, alerts, limit) ==
    Limit(Descending(SelectSeq(mails, LAMBDA id :
              /\ id \in DOMAIN categories
              /\ categories[id] = "urgent"
              /\ << id, "urgent" >> \notin alerts)), limit)

\* How the send_message calls of poll_and_alert end: the Markdown message is
\* delivered, or it is refused and the plain one is delivered, or both raise
SendOutcomes == {"markdown", "plain", "failed"}

\* poll_and_alert marking the listed mails after the alert was delivered
poll_and_alert_MarksAfterSend ==
    \E fetched \in FetchUnread, sent \in SendOutcomes :
        LET end == SyncFrom(1, fetched,
                     [messages |-> mail_messages, classification |-> mail_classification])
            ids == {ext_id(fetched[i]) : i \in DOMAIN fetched}
            urgent == unalerted_urgent_rows(end.messages, end.classification,
                                            mail_alerts, 5)
            marked == IF sent = "failed" THEN {} ELSE Range(urgent)
        IN /\ mail_messages' = end.messages
           /\ mail_classification' = end.classification
           /\ resynced' = resynced \cup (ids \cap alerted)
           /\ mail_alerts' = mail_alerts \cup {<< id, "urgent" >> : id \in marked}
           /\ alerted' = alerted \cup marked
           /\ poll_log' = [urgent |-> urgent,
                           sent |-> IF urgent = << >> THEN "none" ELSE sent]
           /\ delivered' = delivered \cup marked
           /\ UNCHANGED << unalerted, coreVars, vaultVars, voteVars, traceVars, memVars >>

\* MailOpsPoller.poll_and_alert (poller.py:31-53): the sync, the list of at most
\* five urgent mails without an alert row, mark_urgent_alerted for each of them
\* inside the loop that builds the text, then the send with its plain-text retry;
\* an exception of the retry is logged by the outer handler.
poll_and_alert ==
    \E fetched \in FetchUnread, sent \in SendOutcomes :
        LET end == SyncFrom(1, fetched,
                     [messages |-> mail_messages, classification |-> mail_classification])
            ids == {ext_id(fetched[i]) : i \in DOMAIN fetched}
            urgent == unalerted_urgent_rows(end.messages, end.classification,
                                            mail_alerts, 5)
        IN /\ mail_messages' = end.messages
           /\ mail_classification' = end.classification
           /\ resynced' = resynced \cup (ids \cap alerted)
           /\ mail_alerts' = mail_alerts \cup {<< id, "urgent" >> : id \in Range(urgent)}
           /\ alerted' = alerted \cup Range(urgent)
           /\ poll_log' = [urgent |-> urgent,
                           sent |-> IF urgent = << >> THEN "none" ELSE sent]
           /\ delivered' = IF sent = "failed" THEN delivered
                           ELSE delivered \cup Range(urgent)
           /\ UNCHANGED << unalerted, coreVars, vaultVars, voteVars, traceVars, memVars >>

\* MailOpsPoller.__init__: no poll has run
PollIdle ==
    /\ poll_log = [urgent |-> << >>, sent |-> "none"]
    /\ delivered = {}

(***************************************************************************)
(* The memory store (polaris/memory/memory.py) as the semantic search and  *)
(* the prompt builder read it, with route calls of several sessions        *)
(* running on worker threads (bot_v2.py:622-624) over the one router.      *)
(***************************************************************************)
\* Rows of the conversations table and of the knowledge table
MaxConversationRows == 2
MaxKnowledgeRows == 1

MemSessions == {"u1", "u2"}

\* The vectors the embedder returns, and the NULL of a row saved without one
Embeddings == { << 1, 0 >>, << 0, 1 >> }
NoEmbedding == << >>

RECURSIVE Dot(_, _)
\* sum(x * y for x, y in zip(a, b))
Dot(a, b) == IF a = << >> \/ b = << >> THEN 0
             ELSE Head(a) * Head(b) + Dot(Tail(a), Tail(b))

\* OllamaEmbedder.cosine_similarity; the vectors of Embeddings have norm 1, so
\* the quotient of line 103 is the dot product
cosine_similarity(a, b) ==
    IF Len(a) # Len(b) THEN 0
    ELSE IF Dot(a, a) = 0 \/ Dot(b, b) = 0 THEN 0
    ELSE Dot(a, b)

RECURSIVE SortedByScore(_)
\* candidates.sort(key=lambda c: c["score"], reverse=True): the sort is stable,
\* candidates of equal score keep the order they were appended in
SortedByScore(candidates) ==
    IF candidates = << >> THEN << >>
    ELSE LET rest == SortedByScore(SubSeq(candidates, 1, Len(candidates) - 1))
             last == candidates[Len(candidates)]
             k == Cardinality({ i \in DOMAIN rest : rest[i].score >= last.score })
         IN  SubSeq(rest, 1, k) \o << last >> \o SubSeq(rest, k + 1, Len(rest))

\* The candidates of one table: its rows WHERE embedding IS NOT NULL, in rowid order
Candidates(table, rows, query_vec) ==
    SelectSeq([i \in DOMAIN rows |->
                  [source_table |-> table, id |-> i, embedded |-> rows[i].embedding # NoEmbedding,
                   score |-> cosine_similarity(query_vec, rows[i].embedding)]],
              LAMBDA c : c.embedded)

\* PolarisMemory._semantic_search
_semantic_search(query_vec, top_k) ==
    Limit(SortedByScore(Candidates("conversation", mem_conversations, query_vec)
                        \o Candidates("knowledge", mem_knowledge, query_vec)), top_k)

\* PolarisMemory.get_recent_conversations: newest first, LIMIT, then reversed
get_recent_conversations(session_id, limit) ==
    Descending(Limit(Descending(SelectSeq(
        [i \in DOMAIN mem_conversations |->
            [id |-> i, session_id |-> mem_conversations[i].session_id,
             role |-> mem_conversations[i].role]],
        LAMBDA r : r.session_id = session_id)), limit))

\* A search with the embedding of a query (search_memory, memory.py:141-146)
SemanticSearch ==
    /\ \E query_vec \in Embeddings, top_k \in {1, 5} :
         search_hits' = [called |-> TRUE, hits |-> _semantic_search(query_vec, top_k)]
    /\ UNCHANGED << mem_conversations, mem_knowledge, _current_session_id, route_calls,
                    coreVars, vaultVars, voteVars, traceVars, mailVars, pollVars >>

\* PolarisMemory.save_conversation (memory.py:53-64): one more row; the embedding
\* is NULL when the embedder returned none
SaveConversation ==
    /\ Len(mem_conversations) < MaxConversationRows
    /\ \E s \in MemSessions, role \in {"user", "assistant"} :
       \E e \in Embeddings \cup {NoEmbedding} :
         mem_conversations' = Append(mem_conversations,
                                     [session_id |-> s, role |-> role, embedding |-> e])
    /\ UNCHANGED << mem_knowledge, search_hits, _current_session_id, route_calls,
                    coreVars, vaultVars, voteVars, traceVars, mailVars, pollVars >>

\* PolarisMemory.save_knowledge: one more row, with or without an embedding
SaveKnowledge ==
    /\ Len(mem_knowledge) < MaxKnowledgeRows
    /\ \E e \in Embeddings \cup {NoEmbedding} :
         mem_knowledge' = Append(mem_knowledge, [embedding |-> e])
    /\ UNCHANGED << mem_conversations, search_hits, _current_session_id, route_calls,
                    coreVars, vaultVars, voteVars, traceVars, mailVars, pollVars >>

\* route() starts on a worker thread for a message of the session and stores the
\* session id in the router (router.py:384)
RouteBegin ==
    /\ \E s \in MemSessions :
         /\ route_calls[s].pc = "idle"
         /\ _current_session_id' = s
         /\ route_calls' = [route_calls EXCEPT ![s] = [pc |-> "started", recent |-> << >>]]
    /\ UNCHANGED << mem_conversations, mem_knowledge, search_hits,
                    coreVars, vaultVars, voteVars, traceVars, mailVars, pollVars >>

\* _build_system_prompt reads the last five turns of the session the router's
\* attribute names (router.py:501-516)
BuildSystemPrompt ==
    /\ \E s \in MemSessions :
         /\ route_calls[s].pc = "started"
         /\ route_calls' = [route_calls EXCEPT ![s] =
                [pc |-> "prompted",
                 recent |-> get_recent_conversations(_current_session_id, 5)]]
    /\ UNCHANGED << mem_conversations, mem_knowledge, search_hits, _current_session_id,
                    coreVars, vaultVars, voteVars, traceVars, mailVars, pollVars >>

\* route() after the backend returned (router.py:420-431): the user turn and the
\* assistant turn are saved under the session_id argument; a save that fails is
\* logged and skipped
RouteSave ==
    /\ \E s \in MemSessions :
         /\ route_calls[s].pc = "prompted"
         /\ \E user_saved \in BOOLEAN, assistant_saved \in BOOLEAN :
            \E e \in Embeddings \cup {NoEmbedding} :
              LET new == (IF user_saved
                          THEN << [session_id |-> s, role |-> "user", embedding |-> e] >>
                          ELSE << >>)
                         \o (IF assistant_saved
                             THEN << [session_id |-> s, role |-> "assistant",
                                      embedding |-> e] >>
                             ELSE << >>)
              IN  /\ Len(mem_conversations) + Len(new) <= MaxConversationRows
                  /\ mem_conversations' = mem_conversations \o new
         /\ route_calls' = [route_calls EXCEPT ![s] = [pc |-> "idle", recent |-> << >>]]
    /\ UNCHANGED << mem_knowledge, search_hits, _current_session_id,
                    coreVars, vaultVars, voteVars, traceVars, mailVars, pollVars >>

\* PolarisMemory.__init__ on a new database, and a router no route call has reached
MemIdle ==
    /\ mem_conversations = << >>
    /\ mem_knowledge = << >>
    /\ search_hits = [called |-> FALSE, hits |-> << >>]
    /\ _current_session_id = ""
    /\ route_calls = [s \in MemSessions |-> [pc |-> "idle", recent |-> << >>]]

\* MailOpsStore.__init__ on a new mailops.db
MailIdle ==
    /\ mail_messages = << >>
    /\ mail_classification = [x \in {} |-> ""]
    /\ mail_alerts = {}
    /\ alerted = {}
    /\ resynced = {}
    /\ unalerted = [calls |-> 0, rows |-> << >>]

\* After PolarisBotV2.__init__: the router's registry holds every skill, the
\* watcher has taken its first snapshot and has never checked.
ReloadIdle ==
    /\ now = check_interval
    /\ mtime = [f \in WatchFiles |-> 1]
    /\ _watch_mtimes = [f \in WatchFiles |-> 1]
    /\ _last_check = 0
    /\ modified = {}
    /\ last_check = [kind |-> "none", modified |-> {}, reloads |-> 0]
    /\ _index = Range(InternalSkills) \cup Range(ExternalSkills)
    /\ reloader = ReloaderIdle
    /\ matcher = MatcherIdle

GateIdle ==
    /\ reqs = << >>
    /\ pending = {}
    /\ answers = {}

RouterIdle ==
    /\ pc = "idle"
    /\ message = {}
    /\ enforcement = NoEnforcement
    /\ relevant_tools = << >>
    /\ preflight_results = << >>
    /\ tools_used = << >>
    /\ successful_tools = << >>
    /\ iteration = 0
    /\ llm_requests = 0
    /\ choice_content = ""
    /\ messages = << >>
    /\ ending = "none"
    /\ response = ""
    /\ approval_decisions = << >>
    /\ conversations = << >>
    /\ traces = << >>

Init ==
    /\ RouterIdle /\ GateIdle /\ ReloadIdle /\ VaultIdle /\ VoteIdle /\ TraceIdle /\ MailIdle
    /\ PollIdle /\ MemIdle

Next ==
    \/ HandleMessage
    \/ MatchRaises
    \/ LLMAuthError
    \/ LLMApiError
    \/ LLMRaises
    \/ ToolCalls
    \/ FinalAnswer
    \/ Exhausted
    \/ Persist
    \/ LogTraces
    \/ ErrorHandler

Spec == Init /\ [][Next]_vars

\* handle_message is sequential code: each of its steps runs once the one before it
\* has returned.
RouterFair == Spec /\ WF_vars(Next)

GateNext ==
    \/ GateBegin
    \/ GatePark
    \/ HandleCallback
    \/ Tick
    \/ TimerFires
    \/ GateResume
    \/ GateTimedOut

GateSpec == Init /\ [][GateNext]_vars

ReloadNext ==
    \/ TickClock
    \/ ModifyFile
    \/ DeleteFile
    \/ CheckAndApply
    \/ RegisterExternalSkill
    \/ Refresh
    \/ ScanAdd
    \/ MatchBegin
    \/ MatchEnd

ReloadSpec == Init /\ [][ReloadNext]_vars

VaultNext ==
    \/ WriteNote
    \/ RemoveNote
    \/ index_vault

VaultSpec == Init /\ [][VaultNext]_vars

VoteNext ==
    \/ RLMConfig
    \/ AppendCorrection
    \/ classify_with_ensemble

VoteSpec == Init /\ [][VoteNext]_vars

TraceNext ==
    \/ log
    \/ TraceQuery

TraceSpec == Init /\ [][TraceNext]_vars

MailNext ==
    \/ sync_unread
    \/ list_unalerted_urgent
    \/ mark_alerted

MailSpec == Init /\ [][MailNext]_vars

\* The poller, the only caller of mark_urgent_alerted, next to the syncs of the
\* mail commands
PollNext ==
    \/ poll_and_alert
    \/ sync_unread

PollSpec == Init /\ [][PollNext]_vars

\* The memory store under its writers and the semantic search
MemNext ==
    \/ SaveConversation
    \/ SaveKnowledge
    \/ SemanticSearch

MemSpec == Init /\ [][MemNext]_vars

\* Route calls of the sessions on worker threads over the one router and store
SessionsNext ==
    \/ RouteBegin
    \/ BuildSystemPrompt
    \/ RouteSave

SessionsSpec == Init /\ [][SessionsNext]_vars

\* The event loop runs every ready task and every due timer, and time passes;
\* nothing obliges the user to press a button or the caller to start a request.
GateFair ==
    /\ GateSpec
    /\ WF_vars(GatePark)
    /\ WF_vars(Tick)
    /\ WF_vars(TimerFires)
    /\ WF_vars(GateResume)
    /\ WF_vars(GateTimedOut)

(***************************************************************************)
(* Properties of the router turn, checked under Spec.                      *)
(***************************************************************************)
\* Every _execute_tool call of the turn, preflight calls first: tool and result
Invocations ==
    [i \in DOMAIN preflight_results |->
        [tool |-> preflight_results[i].name, content |-> preflight_results[i].content]]
    \o [i \in DOMAIN messages |->
        [tool |-> messages[i].tool, content |-> messages[i].content]]

\* A handler ran for the call and its result is no error payload
ExecutedSuccessfully(inv) ==
    HandlerRan(inv.content) /\ ~_looks_like_tool_error(inv.content)

\* The gate returned approved=true for the tool in this turn
ApprovalRecorded(tool_name) ==
    \E i \in DOMAIN approval_decisions :
        approval_decisions[i].tool = tool_name /\ approval_decisions[i].approved

TurnReturned == pc \in {"returned", "routed", "replied"}
TurnOver == pc \in {"replied", "aborted"}

\* C1: every tool whose risk level is not AUTO and that was executed successfully
\* during the route call has a recorded approval decision with approved=true.
C1_NonAutoToolsRunOnlyApproved ==
    \A i \in DOMAIN Invocations :
        (RiskOf(Invocations[i].tool) # "AUTO" /\ ExecutedSuccessfully(Invocations[i]))
            => ApprovalRecorded(Invocations[i].tool)

\* C2: when requires_tool is true and no tool execution succeeded, the response is
\* the refusal string and never the model's text, whether the loop ends with a
\* final answer or by exhausting its iterations (stated for the turns whose last
\* model response carries text).
C2_RefusalHoweverLoopEnds ==
    (TurnReturned /\ ending \in {"final", "exhausted"} /\ choice_content # ""
        /\ enforcement.requires_tool /\ successful_tools = << >>)
            => response = REFUSAL

\* C4: no exception escapes route; it always returns a result.
C4_NoExceptionEscapesRoute == pc \notin {"raised", "aborted"}

\* The largest number of tool calls one LLM response carries
MaxCallsPerResponse ==
    LET lens == { Len(b) : b \in ToolCallBatches }
    IN  CHOOSE n \in lens : \A m \in lens : m <= n

\* C5 as stated: the length of tools_used is at most max_iterations.
C5_ToolsUsedAtMostMaxIterations == Len(tools_used) <= max_iterations

\* C5 as amended: tools_used holds one entry per preflight tool and one per tool
\* call requested in at most max_iterations LLM responses, so its length is at most
\* the number of preflight tools plus max_iterations times the largest number of
\* calls in one response.
C5_ToolsUsedBound ==
    /\ iteration <= max_iterations
    /\ Len(tools_used) = Len(preflight_results) + Len(messages)
    /\ Len(tools_used) <= Len(enforcement.preflight_tools)
                            + max_iterations * MaxCallsPerResponse

\* A turn whose tools_used is longer than max_iterations and reaches the bound
C5_Witness ==
    /\ pc = "replied"
    /\ ending = "exhausted"
    /\ Len(tools_used) > max_iterations
    /\ Len(tools_used) = Len(enforcement.preflight_tools)
                            + max_iterations * MaxCallsPerResponse

\* C6: once the turn is over, however it ended, the trace holds one row for every
\* tool invocation made during it.
C6_TraceRowPerInvocation ==
    TurnOver =>
        /\ Len(traces) = Len(Invocations)
        /\ \A i \in DOMAIN Invocations : traces[i].tool = Invocations[i].tool

\* C7: a tool call requested by the model whose approval was not granted (denied or
\* timed out) is not executed, its tool-result message is the denial message, and
\* its name is in tools_used.
C7_UnapprovedCallIsDenied ==
    \A i \in DOMAIN messages :
        (RiskOf(messages[i].tool) # "AUTO" /\ ~ApprovalRecorded(messages[i].tool))
            => /\ ~HandlerRan(messages[i].content)
               /\ messages[i].content = "approval_denied"
               /\ messages[i].tool \in Range(tools_used)

\* The names of the tool messages of the transcript, in call order
CalledTools == [i \in DOMAIN messages |-> messages[i].tool]

C14_BoundedRequests ==
    /\ llm_requests <= max_iterations
    /\ iteration <= llm_requests
    /\ ending = "exhausted" =>
          /\ llm_requests = max_iterations
          /\ response = (IF choice_content # "" THEN choice_content ELSE FALLBACK)
          /\ tools_used = enforcement.preflight_tools \o CalledTools

\* C14: a route call that entered the ReAct loop ends, and it makes at most
\* max_iterations LLM requests; when the iterations are exhausted it has made
\* exactly max_iterations requests and returns the last model text, or the generic
\* fallback when that text is empty, with tools_used holding every preflight tool
\* and every requested call.
C14_EndsWithinMaxIterations ==
    /\ (pc = "loop") ~> (pc \in {"returned", "raised", "routed", "replied", "aborted"})
    /\ []C14_BoundedRequests

\* A turn that exhausted its iterations and replied with the last model text
C14_Witness ==
    /\ pc = "replied"
    /\ ending = "exhausted"
    /\ llm_requests = max_iterations
    /\ response = "model_text"
    /\ tools_used # << >>

\* The _execute_tool calls of the turn for which a handler ran
HandlerRuns == { i \in DOMAIN Invocations : HandlerRan(Invocations[i].content) }

\* C15: the number of tool executions of the turn is at most the number of tools
\* matched for the turn (the per-turn toolset relevant_tools).
C15_ExecutionsAtMostMatchedTools == Cardinality(HandlerRuns) <= Len(relevant_tools)

\* The one matched tool ran in the preflight and again at the model's request
C15_MatchedToolRanTwice ==
    /\ relevant_tools = << "check_hpc_connection" >>
    /\ \A i \in DOMAIN Invocations : Invocations[i].tool = "check_hpc_connection"
    /\ Cardinality(HandlerRuns) = 2

\* The rows a step appended to the conversations table
NewConversationRows == SubSeq(conversations', Len(conversations) + 1, Len(conversations'))

\* C16: rows are only appended to the conversations table, and only by route after
\* its backend call returned (every LLM request of the turn is over): the user row
\* first, the assistant row, holding the response, after it.
C16_ConversationRowsInOrder ==
    [][ conversations' # conversations =>
          /\ pc = "returned"
          /\ Len(conversations') > Len(conversations)
          /\ SubSeq(conversations', 1, Len(conversations)) = conversations
          /\ NewConversationRows \in
                { << [role |-> "user", content |-> "message"] >>,
                  << [role |-> "assistant", content |-> response] >>,
                  << [role |-> "user", content |-> "message"],
                     [role |-> "assistant", content |-> response] >> }
      ]_vars

\* Both rows of a turn that made an LLM request are stored, the user row first
C16_Witness ==
    /\ pc \in {"routed", "replied"}
    /\ llm_requests > 0
    /\ Len(conversations) = 2
    /\ conversations[1].role = "user"
    /\ conversations[2].role = "assistant"
    /\ conversations[2].content = response

\* C17: the trace rows of the turn name the tools in the order in which the calls
\* were made: the i-th row is the row of the i-th call.
C17_TraceRowsInCallOrder ==
    \A i \in DOMAIN traces :
        /\ i \in DOMAIN Invocations
        /\ traces[i].tool = Invocations[i].tool

\* A turn that called two different tools and logged their rows in call order
C17_Witness ==
    /\ pc = "replied"
    /\ Len(traces) >= 2
    /\ traces[1].tool # traces[2].tool
    /\ traces[1].tool = Invocations[1].tool
    /\ traces[2].tool = Invocations[2].tool

\* C18: the approval_level of every trace row is the risk level the risk table
\* gives the row's tool.
C18_TraceLevelIsRiskLevel ==
    \A i \in DOMAIN traces : traces[i].approval_level = RiskOf(traces[i].tool)

\* C25 as stated: when requires_tool is true and allowed_tools is not empty, the
\* tools offered to the LLM are exactly the allowed tools.
C25_ToolsetIsAllowedTools ==
    (pc \notin {"idle", "raised", "aborted"} /\ enforcement.requires_tool
        /\ enforcement.allowed_tools # << >>)
            => Range(relevant_tools) = Range(enforcement.allowed_tools)

\* C25 as amended: when requires_tool is true and allowed_tools is not empty, the
\* tools offered to the LLM are exactly the registered tools whose name is among
\* the allowed tools, each once and in registry order; an allowed name without a
\* registered tool is not offered.
C25_ToolsetIsRegisteredAllowedTools ==
    (pc \notin {"idle", "raised", "aborted"} /\ enforcement.requires_tool
        /\ enforcement.allowed_tools # << >>)
            => relevant_tools =
                 SelectInOrder([i \in DOMAIN tools |-> tools[i].name],
                               Range(enforcement.allowed_tools) \cap ToolNames)

\* A turn whose allowed tools name a registered and an unregistered tool: the
\* registered one alone was offered, and the LLM was asked
C25_Witness ==
    /\ enforcement.requires_tool
    /\ enforcement.allowed_tools = << "check_hpc_connection", "get_schedule" >>
    /\ relevant_tools = << "check_hpc_connection" >>
    /\ llm_requests > 0

\* C26: when requires_tool is true and the per-turn toolset is empty, the turn
\* returns the "tools required but none matched" message; no LLM request was
\* made, no tool was executed and tools_used is empty.
C26_NoToolsMatchedReturnsAtOnce ==
    (pc \notin {"idle", "raised", "aborted"} /\ enforcement.requires_tool
        /\ relevant_tools = << >>)
            => /\ ending = "no_tools"
               /\ response = NO_TOOLS_MATCHED
               /\ llm_requests = 0
               /\ Invocations = << >>
               /\ tools_used = << >>

\* A turn for a skill whose only tool is not registered, replied to at once
C26_Witness ==
    /\ pc = "replied"
    /\ message = {"plan"}
    /\ enforcement.requires_tool
    /\ relevant_tools = << >>
    /\ response = NO_TOOLS_MATCHED

\* polaris.tools.execute_tool raised: _execute_tool renders the exception it caught
\* as "Tool '<name>' failed: <e>" (router.py:788-790)
RegistryRaised(inv) == inv.content = "handler_exception"

\* C27: no call of the tool registry's execute raises: every call returns a
\* handler's result or a JSON error string.
C27_ExecuteNeverRaises ==
    \A i \in DOMAIN Invocations : ~RegistryRaised(Invocations[i])

\* C30: a turn that used no tool has persisted exactly one user row and one
\* assistant row when it is over, and has written no trace row.
C30_NoToolTurnPersistsBothTurns ==
    (TurnOver /\ tools_used = << >>) =>
        /\ Len(conversations) = 2
        /\ conversations[1].role = "user"
        /\ conversations[2].role = "assistant"
        /\ traces = << >>

(***************************************************************************)
(* Properties of the approval gate, checked under GateSpec and GateFair.   *)
(***************************************************************************)
Gated(r) == r.risk \in {"CONFIRM", "CRITICAL"}

\* C3: for a CONFIRM or CRITICAL tool, exec_fn is called only after the request's
\* future was resolved true by an approve callback; a request that was denied or
\* timed out returns approved=false with no result and never calls exec_fn.
C3_ExecOnlyAfterApprove ==
    \A id \in DOMAIN reqs :
        LET r == reqs[id]
        IN  Gated(r) =>
              /\ r.exec_calls > 0 =>
                    /\ r.future = "true"
                    /\ [id |-> id, text |-> "Approved"] \in answers
              /\ (r.pc = "done" /\ (r.future # "true" \/ r.timed_out)) =>
                    /\ r.exec_calls = 0
                    /\ r.ret.approved = FALSE
                    /\ r.ret.result = "None"

\* A gated request that an approve callback approved and that then ran exec_fn
C3_Witness ==
    \E id \in DOMAIN reqs :
        /\ Gated(reqs[id])
        /\ reqs[id].pc = "done"
        /\ reqs[id].future = "true"
        /\ reqs[id].exec_calls = 1
        /\ reqs[id].ret.approved

\* C8: however approve/deny callbacks, repeated ones included, interleave with the
\* timeout, the future of a request is resolved (given a result or cancelled) at
\* most once.
C8_ResolvedAtMostOnce ==
    \A id \in DOMAIN reqs : reqs[id].resolutions <= 1

\* A callback handled after the timeout cancelled the future and before the waiting
\* task removed the pending entry: it found the future done and answered "expired"
C8_Witness ==
    \E id \in DOMAIN reqs :
        /\ reqs[id].pc = "waiting"
        /\ reqs[id].future = "cancelled"
        /\ reqs[id].resolutions = 1
        /\ id \notin pending
        /\ [id |-> id, text |-> "expired"] \in answers

\* How a finished request ended
EndedApproved(r) == r.ret.approved /\ r.exec_calls = 1 /\ ~r.timed_out
EndedDenied(r) == ~r.ret.approved /\ r.exec_calls = 0 /\ ~r.timed_out /\ r.future = "false"
EndedTimedOut(r) == ~r.ret.approved /\ r.exec_calls = 0 /\ r.timed_out /\ r.sent = 2

C9_EndsInOneOutcome ==
    \A id \in DOMAIN reqs :
        LET r == reqs[id]
        IN  (r.sent > 0 /\ r.pc = "done") =>
              /\ \/ EndedApproved(r) /\ ~EndedDenied(r) /\ ~EndedTimedOut(r)
                 \/ ~EndedApproved(r) /\ EndedDenied(r) /\ ~EndedTimedOut(r)
                 \/ ~EndedApproved(r) /\ ~EndedDenied(r) /\ EndedTimedOut(r)
              /\ r.future \notin {"true", "false"} =>
                    /\ EndedTimedOut(r)
                    /\ r.risk = "CONFIRM" => r.waited = CONFIRM_TIMEOUT
                    /\ r.risk = "CRITICAL" => r.waited = CRITICAL_TIMEOUT

C10_AutoRunsWithoutTransport ==
    \A id \in DOMAIN reqs :
        LET r == reqs[id]
        IN  r.risk = "AUTO" =>
              /\ r.pc = "done"
              /\ r.exec_calls = 1
              /\ r.ret = [approved |-> TRUE, result |-> "result", approval_level |-> "AUTO"]
              /\ r.sent = 0
              /\ r.future = "none"
              /\ id \notin pending

\* An AUTO request made without a transport
C10_Witness ==
    \E id \in DOMAIN reqs :
        /\ reqs[id].risk = "AUTO"
        /\ ~reqs[id].transport
        /\ reqs[id].pc = "done"
        /\ reqs[id].ret.approved

\* C11: a CONFIRM or CRITICAL request made without a transport returns at once
\* approved=false with no result; exec_fn is not called, no message is sent and no
\* future is parked.
C11_NoTransportDenies ==
    \A id \in DOMAIN reqs :
        LET r == reqs[id]
        IN  (Gated(r) /\ ~r.transport) =>
              /\ r.pc = "done"
              /\ r.ret = [approved |-> FALSE, result |-> "None", approval_level |-> r.risk]
              /\ r.exec_calls = 0
              /\ r.sent = 0
              /\ r.future = "none"
              /\ id \notin pending

\* A CRITICAL request made without a transport, returned as denied
C11_Witness ==
    \E id \in DOMAIN reqs :
        /\ reqs[id].risk = "CRITICAL"
        /\ ~reqs[id].transport
        /\ reqs[id].pc = "done"
        /\ ~reqs[id].ret.approved
        /\ reqs[id].exec_calls = 0

\* A step in which a callback for id is answered "expired"
AnsweredExpired(id) ==
    /\ [id |-> id, text |-> "expired"] \notin answers
    /\ [id |-> id, text |-> "expired"] \in answers'

\* A step in which a callback gives the future of id its result
ResolvedByCallback(id) ==
    /\ reqs'[id].future \in {"true", "false"}
    /\ reqs'[id].future # reqs[id].future

\* C12: a callback whose id is unknown, or whose future is already done, is
\* answered "expired": a callback resolves a future only when the id is in the
\* pending table and its future is still pending. The step that answers "expired"
\* changes no request and leaves every other pending entry in place.
C12_ExpiredCallbackResolvesNothing ==
    [][ /\ \A id \in {StaleId} \cup DOMAIN reqs :
              AnsweredExpired(id) =>
                  /\ id \notin pending \/ FutureDone(reqs[id].future)
                  /\ reqs' = reqs
                  /\ pending' = pending \ {id}
        /\ \A id \in DOMAIN reqs :
              (Len(reqs') = Len(reqs) /\ ResolvedByCallback(id)) =>
                  /\ id \in pending
                  /\ reqs[id].future = "pending"
                  /\ [id |-> id, text |-> "expired"] \notin (answers' \ answers)
      ]_vars

\* A callback with an id no request carries was answered "expired" while a request
\* is still waiting in the pending table, its future pending
C12_Witness ==
    \E other \in DOMAIN reqs :
        /\ [id |-> StaleId, text |-> "expired"] \in answers
        /\ other \in pending
        /\ reqs[other].future = "pending"
        /\ reqs[other].pc = "waiting"

\* C13: a tool name the risk table does not hold is given the level CONFIRM, and
\* the gate calls exec_fn for it only after an approve callback resolved its future
\* true.
C13_UnknownToolNeedsApproval ==
    \A id \in DOMAIN reqs :
        LET r == reqs[id]
        IN  r.tool \notin DOMAIN TOOL_RISK_MAP =>
              /\ r.risk = "CONFIRM"
              /\ r.ret.approval_level \in {"none", "CONFIRM"}
              /\ (r.exec_calls > 0 \/ r.ret.approved) =>
                    /\ r.transport
                    /\ r.future = "true"
                    /\ [id |-> id, text |-> "Approved"] \in answers

\* A request for a tool outside the table that was approved and executed
C13_Witness ==
    \E id \in DOMAIN reqs :
        /\ reqs[id].tool \notin DOMAIN TOOL_RISK_MAP
        /\ reqs[id].pc = "done"
        /\ reqs[id].exec_calls = 1
        /\ reqs[id].ret = [approved |-> TRUE, result |-> "result", approval_level |-> "CONFIRM"]

(***************************************************************************)
(* Properties of the hot reload and the skill registry, under ReloadSpec.  *)
(***************************************************************************)
\* C19: a match that runs while the table is rebuilt sees the complete table from
\* before the rebuild or the complete rebuilt one; it never sees an empty or a
\* partly filled table, and the iteration does not fail.
C19_MatchSeesCompleteTable ==
    matcher.pc = "done" =>
        /\ ~matcher.raised
        /\ matcher.result \in matcher.allowed

\* C20: a check that is not throttled calls the reload callback exactly once when
\* a runtime file was modified since the check before it, and does not call it
\* when none was; a throttled check calls nothing.
C20_OneReloadPerModification ==
    /\ last_check.kind = "checked" =>
          last_check.reloads = (IF last_check.modified # {} THEN 1 ELSE 0)
    /\ last_check.kind = "throttled" => last_check.reloads = 0

(***************************************************************************)
(* Properties of the vault indexer                                         *)
(***************************************************************************)
C21_LastRun == index_runs[Len(index_runs)]
C21_PreviousRun == index_runs[1]

\* an incremental index_vault call returned, another call came before it, and
\* no file changed between the two
C21_ReindexedUnchanged ==
    /\ Len(index_runs) = 2
    /\ ~C21_LastRun.force
    /\ ~C21_LastRun.changed

C21_AllSkipped(stats) == stats.new = 0 /\ stats.updated = 0 /\ stats.skipped = stats.total

C22_ObsidianRowsHaveIndexEntry ==
    \A i \in DOMAIN knowledge :
        knowledge[i].source = "obsidian"
            => \E p \in DOMAIN vault_index : vault_index[p].title = knowledge[i].title

(***************************************************************************)
(* Properties of the ensemble voter                                        *)
(***************************************************************************)
\* the last call went through vote_classify
C23_Voted == classified.called /\ classified.inferences > 0

C23_SuccessfulVotes == Len(SelectSeq(classified.results, LAMBDA r : r \in ValidLabels))

\* the largest number of successful votes any one label got
C23_TopCount ==
    LET counts == {Count(classified.results, l) : l \in ValidLabels}
    IN CHOOSE c \in counts : \A d \in counts : d <= c

C23_QuorumMet == C23_SuccessfulVotes >= rlm_config.min_quorum

C23_ThresholdMet ==
    C23_TopCount * rlm_config.confidence_threshold.den
        >= rlm_config.confidence_threshold.num * C23_SuccessfulVotes

\* C23: vote_classify returns a most frequent label, with confidence
\* count / successes, exactly when successes >= min_quorum and count / successes
\* >= threshold; with successes < min_quorum it returns UNCERTAIN and 0.0; with
\* the quorum met and count / successes < threshold it returns UNCERTAIN and
\* count / successes.
C23_VoteClassifyOutcome ==
    C23_Voted =>
        /\ (classified.category \in ValidLabels) <=> (C23_QuorumMet /\ C23_ThresholdMet)
        /\ (C23_QuorumMet /\ C23_ThresholdMet) =>
            /\ Count(classified.results, classified.category) = C23_TopCount
            /\ classified.confidence = [num |-> C23_TopCount, den |-> C23_SuccessfulVotes]
        /\ ~C23_QuorumMet =>
            /\ classified.category = UNCERTAIN
            /\ classified.confidence = [num |-> 0, den |-> 1]
        /\ (C23_QuorumMet /\ ~C23_ThresholdMet) =>
            /\ classified.category = UNCERTAIN
            /\ classified.confidence = [num |-> C23_TopCount, den |-> C23_SuccessfulVotes]

\* a label returned with the confidence exactly at the threshold, not every
\* inference having succeeded
C23_Witness ==
    /\ C23_Voted
    /\ classified.category \in ValidLabels
    /\ C23_SuccessfulVotes < n_inferences
    /\ C23_TopCount * rlm_config.confidence_threshold.den
        = rlm_config.confidence_threshold.num * C23_SuccessfulVotes

\* the log the last call met holds two corrections of the call's subject with
\* different labels
C24_ContradictoryLog ==
    /\ classified.called
    /\ \E i, j \in DOMAIN classified.log :
        /\ classified.log[i].subject = classified.subject
        /\ classified.log[j].subject = classified.subject
        /\ classified.log[i].corrected_label # classified.log[j].corrected_label

C24_ShortCircuited == classified.category = UNCERTAIN /\ classified.inferences = 0

\* C24 as stated: when the corrections log holds two corrections with exactly
\* the subject of the item and different labels, classifying the item returns
\* UNCERTAIN and runs no inference.
C24_ContradictionShortCircuits == C24_ContradictoryLog => C24_ShortCircuited

\* C24 as the code has it: the same, unless contradiction_detection is
\* configured as "disabled", in which case the log is not consulted.
C24_ContradictionShortCircuitsUnlessDisabled ==
    (C24_ContradictoryLog /\ rlm_config.contradiction_mode # "disabled") => C24_ShortCircuited

C24_Witness ==
    /\ C24_ContradictoryLog
    /\ rlm_config.contradiction_mode # "disabled"
    /\ C24_ShortCircuited

(***************************************************************************)
(* Properties of the trace logger                                          *)
(***************************************************************************)
\* C28: the trace is append-only: no log or query operation removes or changes
\* a row that was inserted before it.
C28_TraceAppendOnly ==
    [][\A i \in DOMAIN trace_table :
            i \in DOMAIN trace_table' /\ trace_table'[i] = trace_table[i]]_vars

\* rows of both sessions were logged and a query then returned some of them
C28_Witness ==
    /\ Len(trace_table) >= 2
    /\ \E i, j \in DOMAIN trace_table :
        i < j /\ trace_table[i].session_id = trace_table[j].session_id
    /\ Len(trace_result) >= 1
    /\ trace_result[1].id = Len(trace_table)

(***************************************************************************)
(* Properties of mail triage                                               *)
(***************************************************************************)
\* C29: a call of list_unalerted_urgent returns no mail that was marked as
\* alerted before it, whatever syncs fetched and classified the mail again in
\* between.
C29_AlertedNeverListedAgain ==
    [][unalerted'.calls # unalerted.calls
        => \A i \in DOMAIN unalerted'.rows : unalerted'.rows[i] \notin alerted]_vars

\* a mail was marked, a later sync fetched it again and it is classified urgent,
\* and the last call returned another urgent mail but not this one
C29_Witness ==
    \E id \in resynced :
        /\ id \in alerted
        /\ mail_classification[id] = "urgent"
        /\ unalerted.rows # << >>
        /\ id \notin Range(unalerted.rows)

(***************************************************************************)
(* Further properties of the router turn                                   *)
(***************************************************************************)
\* C32: when a tool call of the model fails (an error payload, an unknown tool,
\* a handler that raised), its error string is appended as the tool-result
\* message of that call, and the turn goes on in the loop: it is not ended,
\* and with iterations left its next step is the next LLM request.
C32_ToolErrorIsObservedAndLoopGoesOn ==
    [][\A i \in (Len(messages) + 1)..Len(messages') :
            _looks_like_tool_error(messages'[i].content) =>
                /\ messages'[i].role = "tool"
                /\ messages'[i].tool = tools_used'[Len(preflight_results') + i]
                /\ pc' = "loop"
                /\ ending' = "none"
                /\ iteration' < max_iterations => InLoop']_vars

\* a handler raised in the first response's call, and the model was asked again
\* and gave its final answer
C32_Witness ==
    /\ ending = "final"
    /\ llm_requests = 2
    /\ Len(messages) = 1
    /\ messages[1].content = "handler_exception"

\* C33: a preflight tool whose result is no error payload is in tools_used, and
\* a final answer of the model given later in the turn is returned as the
\* response, not the refusal.
C33_PreflightSuccessCounts ==
    \A i \in DOMAIN preflight_results :
        preflight_results[i].ok =>
            /\ \E k \in DOMAIN tools_used : tools_used[k] = preflight_results[i].name
            /\ ending = "final" => (response = choice_content /\ response # REFUSAL)

\* tools are required, the only successful execution is the preflight one, and
\* the model answered without calling a tool
C33_Witness ==
    /\ ending = "final"
    /\ enforcement.requires_tool
    /\ messages = << >>
    /\ \E i \in DOMAIN preflight_results : preflight_results[i].ok
    /\ response = "model_text"

\* the tool_chain of a skill, or its tools_required when the chain is empty
C34_Ordered(skill) ==
    IF skill.tool_chain # << >> THEN skill.tool_chain ELSE skill.tools_required

\* the first-seen-order union, without duplicates, of C34_Ordered over skills
RECURSIVE C34_OrderedUnion(_)
C34_OrderedUnion(skills) ==
    IF skills = << >> THEN << >>
    ELSE LET before == C34_OrderedUnion(SubSeq(skills, 1, Len(skills) - 1))
             last == C34_Ordered(skills[Len(skills)])
         IN before \o SelectSeq(
                [i \in DOMAIN last |->
                    IF last[i] \in Range(before)
                        \/ \E j \in 1..(i - 1) : last[j] = last[i]
                    THEN "" ELSE last[i]],
                LAMBDA n : n # "")

C34_Resolved == pc \notin {"idle", "raised", "aborted"}

\* C34 as stated: allowed_tools and chain_tools are the ordered union, in
\* first-seen order and without duplicates, of the tool_chain (tools_required
\* when the chain is empty) of every matched skill.
C34_ToolsOfEveryMatchedSkill ==
    C34_Resolved =>
        /\ enforcement.allowed_tools = C34_OrderedUnion(match(message))
        /\ enforcement.chain_tools = C34_OrderedUnion(match(message))

\* C34 as the code has it: the same union, taken over the matched skills whose
\* requires_tool is true; a matched skill that does not require a tool adds
\* nothing.
C34_ToolsOfMatchedSkillsRequiringATool ==
    C34_Resolved =>
        LET requiring == SelectSeq(match(message), LAMBDA skill : skill.requires_tool)
        IN /\ enforcement.allowed_tools = C34_OrderedUnion(requiring)
           /\ enforcement.chain_tools = C34_OrderedUnion(requiring)

\* two skills requiring a tool matched, one through its tool_chain and one
\* through its tools_required, and they share a tool
C34_Witness ==
    /\ C34_Resolved
    /\ Len(enforcement.allowed_tools) = 2
    /\ \E i, j \in DOMAIN match(message) :
        i # j /\ Range(C34_Ordered(match(message)[i]))
                    \cap Range(C34_Ordered(match(message)[j])) # {}
    /\ \E i, j \in DOMAIN match(message) :
        /\ match(message)[i].tool_chain # << >>
        /\ match(message)[j].tool_chain = << >>
        /\ match(message)[j].requires_tool

(***************************************************************************)
(* Further properties of the approval gate                                 *)
(***************************************************************************)
\* C35: the pending table holds an entry for a callback id only while the
\* request of that id waits for its decision; once execute_with_approval has
\* returned, approved, denied or timed out, no entry for its id remains.
C35_PendingOnlyWhileInFlight ==
    \A id \in DOMAIN reqs :
        /\ id \in pending => reqs[id].pc = "waiting"
        /\ reqs[id].pc = "done" => id \notin pending

\* A request that timed out has returned, and the table is empty
C35_Witness ==
    \E id \in DOMAIN reqs :
        /\ reqs[id].pc = "done"
        /\ reqs[id].timed_out
        /\ reqs[id].sent = 2
        /\ pending = {}

\* C36: once the prompt of a request is sent, the first callback for its id that
\* is handled before the timeout strikes decides the request, approve approving
\* it and deny denying it, and is not answered "expired".
C36_CallbackAfterPromptDecides ==
    [][\A id \in DOMAIN reqs : \A a \in answers' \ answers :
           ( /\ a.id = id
             /\ reqs[id].sent = 1
             /\ reqs[id].timer # "fired"
             /\ ~\E b \in answers : b.id = id )
           => /\ a.text \in {"Approved", "Denied"}
              /\ reqs'[id].future = IF a.text = "Approved" THEN "true" ELSE "false"]_vars

\* The same for the callbacks handled once the future is parked (line 172)
C36_CallbackAfterParkDecides ==
    [][\A id \in DOMAIN reqs : \A a \in answers' \ answers :
           ( /\ a.id = id
             /\ reqs[id].pc = "waiting"
             /\ reqs[id].timer # "fired"
             /\ ~\E b \in answers : b.id = id )
           => /\ a.text \in {"Approved", "Denied"}
              /\ reqs'[id].future = IF a.text = "Approved" THEN "true" ELSE "false"]_vars

(***************************************************************************)
(* Further properties of the hot reload                                    *)
(***************************************************************************)
\* A check that is not throttled: check_and_apply sets _last_check (line 100)
C40_CheckedStep == _last_check' # _last_check

\* C40: a watched skill file of the snapshot that was deleted is reported as a
\* runtime change by the next check that is not throttled, which calls the
\* reload callback.
C40_DeletionReloads ==
    [][\A f \in SkillFiles :
           (InSnapshot(f) /\ ~Exists(f) /\ C40_CheckedStep)
               => last_check'.reloads = 1]_vars

(***************************************************************************)
(* Further properties of the tool calls of a turn                          *)
(***************************************************************************)
\* C37: a handler runs for a tool call of the model only if the tool is in the
\* toolset offered to the model for the turn (relevant_tools).
C37_ExecutesOnlyOfferedTools ==
    \A i \in DOMAIN messages :
        HandlerRan(messages[i].content) => messages[i].tool \in Range(relevant_tools)

(***************************************************************************)
(* Properties of the urgent mail poller, checked under PollSpec            *)
(***************************************************************************)
\* C39: an urgent mail is recorded as alerted only if an alert message that
\* lists it was delivered to the chat, so that a mail whose alert could not be
\* sent is listed again by a later poll.
C39_AlertedOnlyIfDelivered ==
    \A id \in ExtIds : << id, "urgent" >> \in mail_alerts => id \in delivered

(***************************************************************************)
(* Properties of the memory store, checked under MemSpec, and of           *)
(* concurrent route calls, checked under SessionsSpec                      *)
(***************************************************************************)
\* C31: in the result of a semantic search, hits of equal score are in
\* descending id order: the more recent row comes first.
C31_TiesByDescendingId ==
    \A i \in DOMAIN search_hits.hits : \A j \in DOMAIN search_hits.hits :
        ( /\ i < j
          /\ search_hits.hits[i].score = search_hits.hits[j].score
          /\ search_hits.hits[i].source_table = search_hits.hits[j].source_table )
        => search_hits.hits[i].id > search_hits.hits[j].id

\* C38: the recent-conversation block of the system prompt of a route call holds
\* only turns of the session the call was made for, also when route calls of
\* other sessions run at the same time.
C38_RecentBlockOfOwnSession ==
    \A s \in MemSessions : \A i \in DOMAIN route_calls[s].recent :
        route_calls[s].recent[i].session_id = s

====
